---- MODULE Spec2Model ----
(***************************************************************************)
(* AIGENT backend: the single-active-agent flag (aigents/models.py,        *)
(* aigents/views.py) and the Celery task process_user_message_to_aigent    *)
(* (aigents/tasks.py) with its retry policy and chat-history append; the   *)
(* tool executor (tools/executor.py); the send-message, task-status and    *)
(* chat-history endpoints (aigents/views.py); and the seed_initial_data    *)
(* management command.                                                     *)
(*                                                                         *)
(* The database runs in autocommit mode (settings.py sets no               *)
(* ATOMIC_REQUESTS), so every ORM statement is a step of its own: other    *)
(* requests and workers interleave between two statements of one handler.  *)
(***************************************************************************)
EXTENDS Integers, Sequences, FiniteSets, TLC

\* ---- bounds of the model ----
NumAgents == 3
NumActivations == 2
NumTasks == 1
NumTurns == 2
NumToolCalls == 2
NumEntries == 2

\* ---- program constants ----
max_retries == 3
default_retry_delay == 60
MAX_HISTORY_ENTRIES == 50
TEST_USER_ID == 1
limit == 10

Agents == 1..NumAgents
Tasks == 1..NumTasks
NoAigent == 0

\* Rows of the user table, and the ids a task may be dispatched with
\* (an id with no row models a user deleted before the worker runs).
Users == {TEST_USER_ID}
UserIds == {TEST_USER_ID, TEST_USER_ID + 1}
Messages == {"Hello"}

\* ---- agent rows as seeded: every third agent lacks a prompt template,  ----
\* ---- every third has an empty endpoint list, the others are complete. ----
default_prompt_template(a) == IF a % 3 = 2 THEN "" ELSE "StandardChatInteraction"
ollama_endpoints(a) == IF a % 3 = 0 THEN <<>> ELSE <<"http://ollama-" \o ToString(a) \o ":11434/">>

VARIABLES
    is_active,      \* Aigent.is_active of every agent row
    saving,         \* per agent: Aigent.save() calls between their UPDATE of the others and their own row's save
    history,        \* ChatHistory.history per (user, agent), when it is a list
    chat_row,       \* per (user, agent): no ChatHistory row, a row with a list, a row with another JSON value
    status,         \* Celery state of each task
    pc,             \* position of the running attempt
    retries,        \* self.request.retries of the current request
    user_id,        \* task argument
    message,        \* task argument user_message_content
    aigent,         \* active_aigent resolved by the running attempt
    info,           \* AsyncResult.info: the exception (FAILURE, RETRY) or the result (SUCCESS)
    answer,         \* answer_to_user of the running attempt
    structured_llm_output,   \* the parsed model reply of the running attempt
    formatted_chat_history,  \* formatted_chat_history_str placed in the prompt of the attempt
    full_prompt,    \* the rendered template of the request in flight: the value at each placeholder
    ollama_api_url_target,   \* the URL of the request in flight
    aigent_state,   \* Aigent.aigent_state of every agent row
    user_state,     \* User.user_state of every user row
    template_str,   \* per agent: the placeholders in the template_str of its prompt template
    endpoints,      \* Aigent.ollama_endpoints of every agent row: the stored JSON value
    clock,          \* datetime.utcnow(), in ticks
    calls,          \* model calls made by the current attempt
    total_calls,    \* model calls made by the task over all attempts
    countdowns,     \* countdown of every retry scheduled so far
    snapshot,       \* history list loaded by get_or_create, held until save()
    executor,       \* the execute_tool call in progress, or the last one that returned
    tool_invocations,  \* execute_tool calls made so far, per calling turn (NoTask: outside any turn)
    response_data,  \* per task: the status request in progress, or the last response of TaskStatusView
    history_response,  \* per requesting user: the last response of ChatHistoryView
    send_response,  \* per requesting user: the last response of SendMessageView
    seed            \* the run of seed_initial_data: mode, agent rows present, entries processed

vars == <<is_active, saving, history, chat_row, status, pc, retries, user_id, message,
          aigent, info, answer, structured_llm_output, formatted_chat_history, full_prompt,
          ollama_api_url_target,
          aigent_state, user_state, template_str, endpoints, clock, calls, total_calls, countdowns,
          snapshot, executor, tool_invocations, response_data, history_response,
          send_response, seed>>

agentVars == <<is_active, saving>>
historyVars == <<history, chat_row>>
toolVars == <<executor, tool_invocations>>
seedVars == <<seed>>
viewVars == <<response_data, history_response, send_response>>
\* columns that no handler of the model writes
stateVars == <<aigent_state, user_state, template_str, endpoints>>
localVars == <<answer, structured_llm_output, formatted_chat_history, full_prompt,
               ollama_api_url_target>>
taskVars == <<status, pc, retries, user_id, message, aigent, info, localVars, calls,
              total_calls, countdowns, snapshot, stateVars, clock>>

ActiveSet == {a \in Agents : is_active[a]}

RECURSIVE SumOver(_, _)
SumOver(f, S) == IF S = {} THEN 0
                 ELSE LET x == CHOOSE y \in S : TRUE IN f[x] + SumOver(f, S \ {x})

InFlight == SumOver(saving, Agents)

NoInfo == [exc |-> "", code |-> 0, msg |-> ""]
NoResult == <<>>
NoTask == 0
\* no status request made yet
NoResponse == [pc |-> "idle", status |-> "", result |-> NoResult, error_message |-> ""]
\* seed_initial_data has not run; every agent of the model has a row
NoEntry == [name |-> NoAigent, is_active |-> FALSE]
NoSeed == [pc |-> "idle", overwrite |-> FALSE, rows |-> Agents, entries |-> 0,
           last |-> NoEntry, created |-> FALSE]
\* no request to SendMessageView made yet
NoSendResponse == [status_code |-> 0, task_id |-> NoTask]
\* no request to ChatHistoryView made yet
NoHistoryResponse ==
    [method |-> "", status_code |-> 0, aigent |-> NoAigent, history |-> <<>>, clock |-> 0]
\* no execute_tool call made yet
NoCall == [pc |-> "idle", caller |-> NoTask, tool_name |-> "",
           parameters |-> [type |-> "NoneType", keys |-> {}], function |-> "",
           ran |-> "no", awaited |-> FALSE, raised |-> "", result |-> ""]
NoSnapshot == <<>>
NoOutput == <<>>

\* ---- what the model endpoint can do to one request ----
\* kind "status": raise_for_status() raised httpx.HTTPStatusError with that code;
\* kind "request_error": httpx.RequestError (connection failure, timeout);
\* kind "ok": a 2xx reply; body is the shape of its `response` field.
StatusCodes == {404, 500, 503}
RequestErrors == {"ConnectError", "ReadTimeout"}
Bodies == {"", "no json", "{}", "{answer_to_user}", "{answer_to_user,updated_aigent_state,updated_user_state}"}
Responses ==
    [kind : {"status"}, code : StatusCodes, body : {""}]
    \cup [kind : {"request_error"}, code : {0}, body : RequestErrors]
    \cup [kind : {"ok"}, code : {200}, body : Bodies]

\* ---- JSON values, by the Python type json.loads gives them ----
JsonObject(text) == [type |-> "dict", text |-> text]
JsonArray(text) == [type |-> "list", text |-> text]
JsonNull == [type |-> "NoneType", text |-> "null"]

\* isinstance(value, dict)
isinstance_dict(value) == value.type = "dict"

get_default_aigent_state == JsonObject("{internal_name: AigentCore_v1}")
get_default_user_state == JsonObject("{alias: , tasks: []}")

\* The JSON documents the endpoint is made to return in its `response` field:
\* the keys in document order and the value of each key.
ParseObject(text) ==
    CASE text = "{}" -> [order |-> <<>>, obj |-> <<>>]
      [] text = "{answer_to_user}" ->
            [order |-> <<"answer_to_user">>, obj |-> [answer_to_user |-> "Hi!"]]
      [] text = "{answer_to_user,updated_aigent_state,updated_user_state}" ->
            [order |-> <<"answer_to_user", "updated_aigent_state", "updated_user_state">>,
             obj |-> [answer_to_user |-> "Hi!",
                      updated_aigent_state |-> JsonObject("{current_goal: greet}"),
                      updated_user_state |-> JsonObject("{alias: Bob}")]]
      [] text = "{answer_to_user,updated_aigent_state:null,updated_user_state:[]}" ->
            [order |-> <<"answer_to_user", "updated_aigent_state", "updated_user_state">>,
             obj |-> [answer_to_user |-> "Paris.",
                      updated_aigent_state |-> JsonNull,
                      updated_user_state |-> JsonArray("[]")]]
      [] text = "{tool_to_use,parameters}" ->
            [order |-> <<"tool_to_use", "parameters">>,
             obj |-> [tool_to_use |-> "web_search",
                      parameters |-> JsonObject("{query: capital of France}")]]
      [] text = "{updated_aigent_state,updated_user_state}" ->
            [order |-> <<"updated_aigent_state", "updated_user_state">>,
             obj |-> [updated_aigent_state |-> JsonObject("{current_goal: greet}"),
                      updated_user_state |-> JsonObject("{alias: Bob}")]]
      [] text = "{answer_to_user,updated_user_state}" ->
            [order |-> <<"answer_to_user", "updated_user_state">>,
             obj |-> [answer_to_user |-> "Hi!",
                      updated_user_state |-> JsonObject("{alias: Bob}")]]
      [] text = "{answer_to_user,updated_aigent_state}" ->
            [order |-> <<"answer_to_user", "updated_aigent_state">>,
             obj |-> [answer_to_user |-> "Hi!",
                      updated_aigent_state |-> JsonObject("{current_goal: greet}")]]

ObjectTexts == {"{}", "{answer_to_user}",
                "{answer_to_user,updated_aigent_state,updated_user_state}",
                "{answer_to_user,updated_aigent_state:null,updated_user_state:[]}",
                "{tool_to_use,parameters}",
                "{updated_aigent_state,updated_user_state}",
                "{answer_to_user,updated_user_state}",
                "{answer_to_user,updated_aigent_state}"}

\* json.loads of the `response` text: a dict, another JSON value, or a parse failure.
json_loads(text) ==
    IF text \in ObjectTexts
      THEN LET doc == ParseObject(text) IN
           [ok |-> TRUE, type |-> "dict",
            keys |-> {doc.order[i] : i \in 1..Len(doc.order)},
            order |-> doc.order, obj |-> doc.obj]
    ELSE IF text = "[]"
      THEN [ok |-> TRUE, type |-> "list", keys |-> {}, order |-> <<>>, obj |-> <<>>]
    ELSE [ok |-> FALSE, type |-> "", keys |-> {}, order |-> <<>>, obj |-> <<>>]

required_keys == {"answer_to_user", "updated_aigent_state", "updated_user_state"}

\* (variants: only the key the task reads afterwards is required; the two
\* states must also be JSON objects)
HasAnswerKey(parsed) == "answer_to_user" \in parsed.keys
HasRequiredObjects(parsed) ==
    /\ required_keys \subseteq parsed.keys
    /\ parsed.obj.updated_aigent_state.type = "dict"
    /\ parsed.obj.updated_user_state.type = "dict"

\* all(key in structured_llm_output for key in required_keys)
HasRequiredKeys(parsed) == required_keys \subseteq parsed.keys

\* str() of a Python list of strings
RECURSIVE PyItems(_)
PyItems(keys) ==
    IF keys = <<>> THEN ""
    ELSE IF Len(keys) = 1 THEN "'" \o keys[1] \o "'"
    ELSE "'" \o keys[1] \o "', " \o PyItems(Tail(keys))

PyList(keys) == "[" \o PyItems(keys) \o "]"

\* missing = [key for key in required_keys if key not in structured_llm_output]
MissingKeys(keys) ==
    SelectSeq(<<"answer_to_user", "updated_aigent_state", "updated_user_state">>,
              LAMBDA k : k \notin keys)

MissingKeysMessage(parsed) ==
    "Ollama JSON output missing keys: " \o PyList(MissingKeys(parsed.keys))
        \o ". Got: " \o PyList(parsed.order)

\* ---- Aigent.save() with is_active = True, as issued by SetActiveAigentView.post ----
\* (variant: only the first other active row is deactivated)
DeactivateFirstOther(flags, a) ==
    LET others == {x \in Agents : x # a /\ flags[x]} IN
    IF others = {} THEN flags
    ELSE [flags EXCEPT ![CHOOSE x \in others : \A y \in others : x <= y] = FALSE]

\* First statement: UPDATE ... SET is_active = False on every other active row.
DeactivateOthers(flags, a) == [x \in Agents |-> IF x # a THEN FALSE ELSE flags[x]]

\* Second statement: super().save() writes the instance's own row.
SaveRow(flags, a) == [flags EXCEPT ![a] = TRUE]

ActivateBegin(a) ==
    /\ InFlight < NumActivations
    /\ is_active' = DeactivateOthers(is_active, a)
    /\ saving' = [saving EXCEPT ![a] = @ + 1]
    /\ UNCHANGED <<historyVars, taskVars, toolVars, viewVars, seedVars>>

ActivateSave(a) ==
    /\ saving[a] > 0
    /\ is_active' = SaveRow(is_active, a)
    /\ saving' = [saving EXCEPT ![a] = @ - 1]
    /\ UNCHANGED <<historyVars, taskVars, toolVars, viewVars, seedVars>>

\* ---- dispatch ----
\* Task.delay: the request is put on the queue under the next free task id
apply_async(t, uid, m) ==
    /\ status[t] = "NONE"
    /\ \A s \in DOMAIN status : s < t => status[s] # "NONE"
    /\ status' = [status EXCEPT ![t] = "PENDING"]
    /\ user_id' = [user_id EXCEPT ![t] = uid]
    /\ message' = [message EXCEPT ![t] = m]
    /\ UNCHANGED <<agentVars, historyVars, pc, retries, aigent, info, localVars, calls,
                   total_calls, countdowns, snapshot, stateVars, clock, toolVars>>

\* process_user_message_to_aigent.delay(user_id, message), as the test script calls it
Delay(t, uid, m) ==
    /\ apply_async(t, uid, m)
    /\ UNCHANGED <<viewVars, seedVars>>

\* SendMessageView.post, the requests it accepts: 503 without an active agent,
\* 500 with several, else .delay(). (A refused request changes nothing but its
\* response; post below is the handler with its responses.)
SendMessage(t, u, m) ==
    /\ Cardinality(ActiveSet) = 1
    /\ Delay(t, u, m)

\* ---- SETUP: get_required_objects_wrapper ----
\* .filter(is_active=True).first() returns the active row with the lowest pk.
FirstActive == CHOOSE a \in ActiveSet : \A b \in ActiveSet : a <= b

\* (variant: the prompt template is not checked)
get_required_objects_unchecked(uid) ==
    IF uid \notin Users
      THEN [err |-> "User matching query does not exist.", aigent |-> NoAigent]
    ELSE IF ActiveSet = {}
      THEN [err |-> "No active Aigent found.", aigent |-> NoAigent]
    ELSE [err |-> "", aigent |-> FirstActive]

get_required_objects_wrapper(uid) ==
    IF uid \notin Users
      THEN [err |-> "User matching query does not exist.", aigent |-> NoAigent]
    ELSE IF ActiveSet = {}
      THEN [err |-> "No active Aigent found.", aigent |-> NoAigent]
    ELSE IF default_prompt_template(FirstActive) = ""
      THEN [err |-> "Aigent has no default prompt template assigned.", aigent |-> NoAigent]
    ELSE [err |-> "", aigent |-> FirstActive]

\* The JSON value in the ollama_endpoints column: its type and, for a list,
\* its entries; for another value, items is empty exactly when the value is
\* falsy (null, "", {}).
EndpointList(items) == [type |-> "list", items |-> items]

\* (variant: only `not endpoints` is tested)
EndpointsFalsy(value) == value.items = <<>>

\* step 4 of the task: not endpoints, or not a list, or not endpoints[0]
EndpointsInvalid(value) ==
    \/ value.items = <<>>
    \/ value.type # "list"
    \/ value.items[1] = ""

\* ---- retry policy ----
\* (variants: every HTTP error status is retried; only status 500 is retried)
IsRetryableAnyError(code) == code >= 400
IsRetryableOnly500(code) == code = 500

\* except httpx.HTTPStatusError: if 500 <= e.response.status_code < 600
IsRetryableStatus(code) == 500 <= code /\ code < 600

\* (variant: a constant delay, no backoff)
RetryCountdownFlat(r) == default_retry_delay

\* countdown=int(self.default_retry_delay * (self.request.retries + 1))
RetryCountdown(r) == default_retry_delay * (r + 1)

\* (variants: max_retries counted as the number of attempts; one retry too many)
MaxRetriesExceededEarly(r) == r + 1 >= max_retries
MaxRetriesExceededLate(r) == r > max_retries

\* Task.retry under max_retries=3: the retry is refused, and exc re-raised,
\* once the request has already been retried max_retries times.
MaxRetriesExceeded(r) == r + 1 > max_retries

\* (variant: the error is handed to self.retry instead of being raised)
RetryInsteadOfFail(t, e) ==
    /\ status' = [status EXCEPT ![t] = IF retries[t] < max_retries THEN "RETRY" ELSE "FAILURE"]
    /\ info' = [info EXCEPT ![t] = e]
    /\ pc' = [pc EXCEPT ![t] = IF retries[t] < max_retries THEN "queued" ELSE "done"]
    /\ aigent' = [aigent EXCEPT ![t] = NoAigent]
    /\ retries' = [retries EXCEPT ![t] = IF @ < max_retries THEN @ + 1 ELSE @]
    /\ UNCHANGED countdowns

\* The terminal outcome of an attempt: raise Exception(err_msg)
Fail(t, e) ==
    /\ status' = [status EXCEPT ![t] = "FAILURE"]
    /\ info' = [info EXCEPT ![t] = e]
    /\ pc' = [pc EXCEPT ![t] = "done"]
    /\ aigent' = [aigent EXCEPT ![t] = NoAigent]
    /\ UNCHANGED <<retries, countdowns>>

\* (variant: the state is set to RETRY but no new request is sent to the queue)
RetryNotEnqueued(t, e) ==
    /\ status' = [status EXCEPT ![t] = "RETRY"]
    /\ info' = [info EXCEPT ![t] = e]
    /\ pc' = [pc EXCEPT ![t] = "done"]
    /\ aigent' = [aigent EXCEPT ![t] = NoAigent]
    /\ UNCHANGED <<retries, countdowns>>

\* raise self.retry(countdown=..., exc=e)
Retry(t, e) ==
    IF MaxRetriesExceeded(retries[t])
      THEN Fail(t, e)
      ELSE /\ status' = [status EXCEPT ![t] = "RETRY"]
           /\ info' = [info EXCEPT ![t] = e]
           /\ pc' = [pc EXCEPT ![t] = "queued"]
           /\ aigent' = [aigent EXCEPT ![t] = NoAigent]
           /\ retries' = [retries EXCEPT ![t] = @ + 1]
           /\ countdowns' = [countdowns EXCEPT ![t] = Append(@, RetryCountdown(retries[t]))]

ConfigError(m) == [exc |-> "DoesNotExist", code |-> 0, msg |-> m]
ValueError(m) == [exc |-> "ValueError", code |-> 0, msg |-> m]
HttpError(c) == [exc |-> "HTTPStatusError", code |-> c, msg |-> "Ollama API request failed"]
\* err_msg = "Ollama request network error: ..." whatever the subclass of RequestError
NetworkError(k) == [exc |-> "RequestError", code |-> 0, msg |-> "Ollama request network error"]
\* except Exception as e: err_msg = "... (Unexpected {type(e).__name__}): ..."
UnexpectedError(name) == [exc |-> "Exception", code |-> 0, msg |-> "Unexpected " \o name]

\* ---- step 2 of the task: the chat history placed in the prompt ----
\* (variant: history_list[:limit], the oldest entries are shown)
FirstEntries(h, n) == IF Len(h) > n THEN SubSeq(h, 1, n) ELSE h

\* history_list[-limit:]
LastEntries(h, n) == IF Len(h) > n THEN SubSeq(h, Len(h) - n + 1, Len(h)) ELSE h

\* str.capitalize() of the role
capitalize(role) ==
    CASE role = "user" -> "User"
      [] role = "assistant" -> "Assistant"
      [] OTHER -> role

\* f"{entry.get('role', 'unknown').capitalize()}: {entry.get('content', '')}"
FormatEntry(entry) == capitalize(entry.role) \o ": " \o entry.content

\* A stored entry that is a JSON string instead of an object; it has no get().
JsonString(text) == [type |-> "str", text |-> text]
HasGet(entry) == "role" \in DOMAIN entry

\* "\n".join(formatted_history)
RECURSIVE JoinLines(_)
JoinLines(lines) ==
    IF lines = <<>> THEN ""
    ELSE IF Len(lines) = 1 THEN lines[1]
    ELSE lines[1] \o "\n" \o JoinLines(Tail(lines))

\* chat_history_obj.history if isinstance(chat_history_obj.history, list) else []
HistoryList(row, h) == IF row = "list" THEN h ELSE <<>>

\* (variant: an entry that cannot be formatted lets its exception through)
get_formatted_chat_history_uncaught(row, h) ==
    IF row = "DoesNotExist" THEN [raised |-> "", text |-> "No previous conversation history."]
    ELSE LET history_list == LastEntries(HistoryList(row, h), limit) IN
         IF \E i \in 1..Len(history_list) : ~HasGet(history_list[i])
           THEN [raised |-> "AttributeError", text |-> ""]
         ELSE IF history_list = <<>>
           THEN [raised |-> "", text |-> "No previous conversation history."]
         ELSE [raised |-> "", text |->
                  JoinLines([i \in 1..Len(history_list) |-> FormatEntry(history_list[i])])]

\* raised = "" always: except ChatHistory.DoesNotExist and except Exception
\* both return a fixed text.
get_formatted_chat_history_wrapper(row, h) ==
    IF row = "DoesNotExist" THEN [raised |-> "", text |-> "No previous conversation history."]
    ELSE LET history_list == LastEntries(HistoryList(row, h), limit) IN
         IF \E i \in 1..Len(history_list) : ~HasGet(history_list[i])
           THEN [raised |-> "", text |-> "Error retrieving conversation history."]
         ELSE IF history_list = <<>>
           THEN [raised |-> "", text |-> "No previous conversation history."]
         ELSE [raised |-> "", text |->
                  JoinLines([i \in 1..Len(history_list) |-> FormatEntry(history_list[i])])]

\* (variant: json.dumps of whatever is stored)
serialize_state_unchecked(state) == state.text

\* serialize_user_state_wrapper, serialize_aigent_state_wrapper:
\* json.dumps(state, indent=2) if isinstance(state, dict) else json.dumps({})
serialize_state_wrapper(state) == IF isinstance_dict(state) THEN state.text ELSE "{}"

\* ---- step 3 of the task: the prompt ----
system_persona_prompt(a) == "You are agent " \o ToString(a) \o "."

\* the placeholders of the seeded template, and the further ones a template
\* may reference (current datetime, tool list, tool-use instructions)
StandardPlaceholders ==
    {"system_persona_prompt", "user_state", "chat_history", "current_user_message", "aigent_state"}
ToolPlaceholders == {"current_datetime", "available_tools", "tool_usage_instructions"}

prompt_placeholders(a, uid, m, chat_history) ==
    [system_persona_prompt |-> system_persona_prompt(a),
     user_state |-> serialize_state_wrapper(user_state[uid]),
     chat_history |-> chat_history,
     current_user_message |-> m,
     aigent_state |-> serialize_state_wrapper(aigent_state[a])]

NoPrompt == <<>>

\* template_str.format(**prompt_placeholders): KeyError for a placeholder
\* that is not among the keyword arguments
str_format(template, placeholders) ==
    IF template \subseteq DOMAIN placeholders
      THEN [raised |-> "", text |-> [k \in template |-> placeholders[k]]]
      ELSE [raised |-> "KeyError", text |-> NoPrompt]

\* f"{ollama_api_url_base.rstrip('/')}/api/generate", for the base URLs of the agent rows
ApiUrl(ollama_api_url_base) ==
    CASE ollama_api_url_base = "http://ollama-1:11434/" -> "http://ollama-1:11434/api/generate"
      [] ollama_api_url_base = "http://ollama-2:11434/" -> "http://ollama-2:11434/api/generate"
      [] ollama_api_url_base = "http://ollama-4:11434/" -> "http://ollama-4:11434/api/generate"
      [] OTHER -> ollama_api_url_base \o "/api/generate"

\* (variant: the message of a failed task is delivered to a worker again)
QueuedOrFailed(t) ==
    \/ status[t] \in {"PENDING", "RETRY"} /\ pc[t] = "queued"
    \/ status[t] = "FAILURE"

\* A request of the task is on the queue: the one .delay() sent, or the one
\* self.retry() sent. The worker acknowledges a message when it takes it, so
\* a task that has returned or raised has none left.
Queued(t) ==
    /\ status[t] \in {"PENDING", "RETRY"}
    /\ pc[t] = "queued"

\* A worker picks the task up (PENDING, or RETRY after its countdown) and runs
\* steps 1 to 5 of the task body up to the point where the request is sent.
StartAttempt(t) ==
    /\ Queued(t)
    /\ LET objs == get_required_objects_wrapper(user_id[t]) IN
         IF objs.err # ""
           THEN /\ Fail(t, ConfigError(objs.err))
                /\ calls' = [calls EXCEPT ![t] = 0]
                /\ UNCHANGED <<total_calls, formatted_chat_history, full_prompt,
                               ollama_api_url_target>>
         ELSE
         LET uid == user_id[t]
             chat == get_formatted_chat_history_wrapper(chat_row[uid][objs.aigent],
                                                        history[uid][objs.aigent])
             rendered == str_format(template_str[objs.aigent],
                                    prompt_placeholders(objs.aigent, uid, message[t], chat.text))
         IN
         IF chat.raised # ""
           THEN /\ Fail(t, UnexpectedError(chat.raised))
                /\ calls' = [calls EXCEPT ![t] = 0]
                /\ UNCHANGED <<total_calls, formatted_chat_history, full_prompt,
                               ollama_api_url_target>>
         ELSE IF rendered.raised # ""
           THEN /\ Fail(t, UnexpectedError(rendered.raised))
                /\ calls' = [calls EXCEPT ![t] = 0]
                /\ formatted_chat_history' = [formatted_chat_history EXCEPT ![t] = chat.text]
                /\ UNCHANGED <<total_calls, full_prompt, ollama_api_url_target>>
         ELSE IF EndpointsInvalid(endpoints[objs.aigent])
           THEN /\ Fail(t, ValueError("Aigent has no valid Ollama endpoints configured."))
                /\ calls' = [calls EXCEPT ![t] = 0]
                /\ formatted_chat_history' = [formatted_chat_history EXCEPT ![t] = chat.text]
                /\ UNCHANGED <<total_calls, full_prompt, ollama_api_url_target>>
         ELSE /\ status' = [status EXCEPT ![t] = "STARTED"]
              /\ info' = [info EXCEPT ![t] = NoInfo]
              /\ pc' = [pc EXCEPT ![t] = "calling"]
              /\ aigent' = [aigent EXCEPT ![t] = objs.aigent]
              /\ calls' = [calls EXCEPT ![t] = 1]
              /\ total_calls' = [total_calls EXCEPT ![t] = @ + 1]
              /\ formatted_chat_history' = [formatted_chat_history EXCEPT ![t] = chat.text]
              /\ full_prompt' = [full_prompt EXCEPT ![t] = rendered.text]
              /\ ollama_api_url_target' = [ollama_api_url_target EXCEPT ![t] =
                     ApiUrl(endpoints[objs.aigent].items[1])]
              /\ UNCHANGED <<retries, countdowns>>
    /\ UNCHANGED <<agentVars, historyVars, user_id, message, answer, structured_llm_output,
                   snapshot, stateVars, clock, toolVars, viewVars, seedVars>>

\* (variant: a reply that selects a tool makes the task call execute_tool and
\* then the model again, as often as the model selects a tool)
ModelResponseWithTools(t, r) ==
    /\ pc[t] = "calling"
    /\ r.kind = "ok"
    /\ "tool_to_use" \in json_loads(r.body).keys
    /\ tool_invocations' = [tool_invocations EXCEPT ![t] = @ + 1]
    /\ calls' = [calls EXCEPT ![t] = @ + 1]
    /\ total_calls' = [total_calls EXCEPT ![t] = @ + 1]
    /\ full_prompt' = [full_prompt EXCEPT ![t] = NoPrompt]
    /\ ollama_api_url_target' = [ollama_api_url_target EXCEPT ![t] = ""]
    /\ UNCHANGED <<agentVars, historyVars, status, pc, retries, user_id, message, aigent, info,
                   answer, structured_llm_output, formatted_chat_history, countdowns, snapshot,
                   stateVars, clock, executor, viewVars, seedVars>>

\* The outstanding request of make_ollama_request ends with response r.
ModelResponse(t, r) ==
    /\ pc[t] = "calling"
    /\ CASE r.kind = "status" ->
              /\ IF IsRetryableStatus(r.code) THEN Retry(t, HttpError(r.code))
                                              ELSE Fail(t, HttpError(r.code))
              /\ UNCHANGED <<answer, structured_llm_output, snapshot, chat_row>>
         [] r.kind = "request_error" ->
              /\ Retry(t, NetworkError(r.body))
              /\ UNCHANGED <<answer, structured_llm_output, snapshot, chat_row>>
         [] OTHER ->
              LET parsed == json_loads(r.body) IN
              IF r.body = ""
                THEN /\ Fail(t, ValueError("Ollama response missing 'response' field."))
                     /\ UNCHANGED <<answer, structured_llm_output, snapshot, chat_row>>
              ELSE IF ~parsed.ok
                THEN /\ Fail(t, ValueError("JSONDecodeError"))
                     /\ UNCHANGED <<answer, structured_llm_output, snapshot, chat_row>>
              ELSE IF ~HasRequiredKeys(parsed)
                THEN \* a reply that is no dict has no keys(): the message cannot be built
                     /\ IF parsed.type = "dict"
                          THEN Fail(t, ValueError(MissingKeysMessage(parsed)))
                          ELSE Fail(t, UnexpectedError("AttributeError"))
                     /\ UNCHANGED <<answer, structured_llm_output, snapshot, chat_row>>
              ELSE \* update_chat_history_wrapper: get_or_create loads the row, or
                   \* inserts it with an empty list; a value that is no list is
                   \* replaced by [] in the loaded object
                   /\ structured_llm_output' = [structured_llm_output EXCEPT ![t] = parsed.obj]
                   /\ answer' = [answer EXCEPT ![t] = parsed.obj.answer_to_user]
                   /\ snapshot' = [snapshot EXCEPT ![t] =
                          HistoryList(chat_row[user_id[t]][aigent[t]], history[user_id[t]][aigent[t]])]
                   /\ chat_row' = [chat_row EXCEPT ![user_id[t]][aigent[t]] =
                          IF @ = "DoesNotExist" THEN "list" ELSE @]
                   /\ pc' = [pc EXCEPT ![t] = "history"]
                   /\ UNCHANGED <<status, info, aigent, retries, countdowns>>
    /\ full_prompt' = [full_prompt EXCEPT ![t] = NoPrompt]
    /\ ollama_api_url_target' = [ollama_api_url_target EXCEPT ![t] = ""]
    /\ UNCHANGED <<agentVars, history, user_id, message, formatted_chat_history,
                   calls, total_calls, stateVars, clock, toolVars, viewVars, seedVars>>

\* (variant: history[-(MAX_HISTORY_ENTRIES*2 + 1):], one entry too many is kept)
TruncateOffByOne(h) ==
    IF Len(h) > MAX_HISTORY_ENTRIES * 2
      THEN SubSeq(h, Len(h) - MAX_HISTORY_ENTRIES * 2, Len(h))
      ELSE h

\* (variant: history[:MAX_HISTORY_ENTRIES*2], the oldest entries are kept)
TruncateKeepOldest(h) ==
    IF Len(h) > MAX_HISTORY_ENTRIES * 2
      THEN SubSeq(h, 1, MAX_HISTORY_ENTRIES * 2)
      ELSE h

\* history = history[-(MAX_HISTORY_ENTRIES*2):]
Truncate(h) ==
    IF Len(h) > MAX_HISTORY_ENTRIES * 2
      THEN SubSeq(h, Len(h) - MAX_HISTORY_ENTRIES * 2 + 1, Len(h))
      ELSE h

\* the two history.append calls, then the truncation
AppendPair(h, m, ans, timestamp) ==
    Truncate(h \o <<[role |-> "user", content |-> m, timestamp |-> timestamp],
                    [role |-> "assistant", content |-> ans, timestamp |-> timestamp]>>)

\* (variant: the returned dict carries the agent state where the answer belongs)
ResultStateAsAnswer(output) ==
    [exc |-> "", code |-> 0, msg |-> output.updated_aigent_state.text,
     answer_to_user |-> output.updated_aigent_state.text,
     updated_aigent_state_debug |-> output.updated_aigent_state,
     updated_user_state_debug |-> output.updated_user_state]

\* return {"answer_to_user": ..., "updated_aigent_state_debug": ..., "updated_user_state_debug": ...}
Result(output) ==
    [exc |-> "", code |-> 0, msg |-> output.answer_to_user,
     answer_to_user |-> output.answer_to_user,
     updated_aigent_state_debug |-> output.updated_aigent_state,
     updated_user_state_debug |-> output.updated_user_state]

\* (variant: the pair is stored once for every attempt the turn has made)
RECURSIVE AppendPairs(_, _, _, _, _)
AppendPairs(h, m, ans, timestamp, n) ==
    IF n = 0 THEN h ELSE AppendPairs(AppendPair(h, m, ans, timestamp), m, ans, timestamp, n - 1)

SaveHistoryPerAttempt(t) ==
    /\ pc[t] = "history"
    /\ clock' = clock + 1
    /\ history' = [history EXCEPT ![user_id[t]][aigent[t]] =
                      AppendPairs(snapshot[t], message[t], answer[t], clock', retries[t] + 1)]
    /\ chat_row' = [chat_row EXCEPT ![user_id[t]][aigent[t]] = "list"]
    /\ status' = [status EXCEPT ![t] = "SUCCESS"]
    /\ info' = [info EXCEPT ![t] = Result(structured_llm_output[t])]
    /\ pc' = [pc EXCEPT ![t] = "done"]
    /\ snapshot' = [snapshot EXCEPT ![t] = NoSnapshot]
    /\ UNCHANGED <<agentVars, retries, user_id, message, aigent, localVars, calls,
                   total_calls, countdowns, stateVars, toolVars, viewVars, seedVars>>

\* (variant: the pair is stored in the history of the agent that is active now)
SaveHistoryOfActive(t) ==
    /\ pc[t] = "history"
    /\ clock' = clock + 1
    /\ LET a == IF ActiveSet = {} THEN aigent[t] ELSE FirstActive IN
       /\ history' = [history EXCEPT ![user_id[t]][a] =
                         AppendPair(snapshot[t], message[t], answer[t], clock')]
       /\ chat_row' = [chat_row EXCEPT ![user_id[t]][a] = "list"]
    /\ status' = [status EXCEPT ![t] = "SUCCESS"]
    /\ info' = [info EXCEPT ![t] = Result(structured_llm_output[t])]
    /\ pc' = [pc EXCEPT ![t] = "done"]
    /\ snapshot' = [snapshot EXCEPT ![t] = NoSnapshot]
    /\ UNCHANGED <<agentVars, retries, user_id, message, aigent, localVars, calls,
                   total_calls, countdowns, stateVars, toolVars, viewVars, seedVars>>

\* (variant: the task also stores the agent row it loaded in SETUP with
\* active_aigent.save(); the instance still has is_active = True)
SaveHistoryAndAgent(t) ==
    /\ pc[t] = "history"
    /\ clock' = clock + 1
    /\ history' = [history EXCEPT ![user_id[t]][aigent[t]] =
                      AppendPair(snapshot[t], message[t], answer[t], clock')]
    /\ chat_row' = [chat_row EXCEPT ![user_id[t]][aigent[t]] = "list"]
    /\ is_active' = SaveRow(DeactivateOthers(is_active, aigent[t]), aigent[t])
    /\ status' = [status EXCEPT ![t] = "SUCCESS"]
    /\ info' = [info EXCEPT ![t] = Result(structured_llm_output[t])]
    /\ pc' = [pc EXCEPT ![t] = "done"]
    /\ snapshot' = [snapshot EXCEPT ![t] = NoSnapshot]
    /\ UNCHANGED <<saving, retries, user_id, message, aigent, localVars, calls,
                   total_calls, countdowns, stateVars, toolVars, viewVars, seedVars>>

\* timestamp = utcnow(), the appends, history_obj.save() and the task's return value.
\* save() of a loaded instance issues an UPDATE by primary key and, when that
\* matches no row (the row was deleted since it was loaded), an INSERT of the
\* instance: the row exists afterwards with the list held in memory.
SaveHistory(t) ==
    /\ pc[t] = "history"
    /\ clock' = clock + 1
    /\ history' = [history EXCEPT ![user_id[t]][aigent[t]] =
                      AppendPair(snapshot[t], message[t], answer[t], clock')]
    /\ chat_row' = [chat_row EXCEPT ![user_id[t]][aigent[t]] = "list"]
    /\ status' = [status EXCEPT ![t] = "SUCCESS"]
    /\ info' = [info EXCEPT ![t] = Result(structured_llm_output[t])]
    /\ pc' = [pc EXCEPT ![t] = "done"]
    /\ snapshot' = [snapshot EXCEPT ![t] = NoSnapshot]
    /\ UNCHANGED <<agentVars, retries, user_id, message, aigent, localVars, calls,
                   total_calls, countdowns, stateVars, toolVars, viewVars, seedVars>>

\* No task dispatched yet, over the task slots T.
InitLocals(T) ==
    /\ status = [t \in T |-> "NONE"]
    /\ pc = [t \in T |-> "queued"]
    /\ retries = [t \in T |-> 0]
    /\ user_id = [t \in T |-> TEST_USER_ID]
    /\ message \in [T -> Messages]
    /\ aigent = [t \in T |-> NoAigent]
    /\ info = [t \in T |-> NoInfo]
    /\ answer = [t \in T |-> ""]
    /\ structured_llm_output = [t \in T |-> NoOutput]
    /\ formatted_chat_history = [t \in T |-> ""]
    /\ full_prompt = [t \in T |-> NoPrompt]
    /\ ollama_api_url_target = [t \in T |-> ""]
    /\ calls = [t \in T |-> 0]
    /\ total_calls = [t \in T |-> 0]
    /\ countdowns = [t \in T |-> <<>>]
    /\ snapshot = [t \in T |-> NoSnapshot]
    /\ executor = NoCall
    /\ tool_invocations = [c \in T \cup {NoTask} |-> 0]
    /\ response_data = [t \in T |-> NoResponse]

\* The state columns as the model defaults create them.
InitStates ==
    /\ aigent_state = [a \in Agents |-> get_default_aigent_state]
    /\ user_state = [u \in Users |-> get_default_user_state]
    /\ template_str = [a \in Agents |-> StandardPlaceholders]
    /\ endpoints = [a \in Agents |-> EndpointList(ollama_endpoints(a))]

InitTasks ==
    /\ saving = [a \in Agents |-> 0]
    /\ history = [u \in Users |-> [a \in Agents |-> <<>>]]
    /\ chat_row = [u \in Users |-> [a \in Agents |-> "DoesNotExist"]]
    /\ clock = 0
    /\ InitStates
    /\ InitLocals(Tasks)
    /\ history_response = [u \in Users |-> NoHistoryResponse]
    /\ send_response = [u \in Users |-> NoSendResponse]

\* The flags as the save() hook is meant to keep them: at most one agent active.
Init ==
    /\ is_active \in {f \in [Agents -> BOOLEAN] : Cardinality({a \in Agents : f[a]}) <= 1}
    /\ InitTasks
    /\ seed = NoSeed

Next ==
    \/ \E a \in Agents : ActivateBegin(a)
    \/ \E a \in Agents : ActivateSave(a)
    \/ \E t \in Tasks, u \in Users, m \in Messages : SendMessage(t, u, m)
    \/ \E t \in Tasks, uid \in UserIds, m \in Messages : Delay(t, uid, m)
    \/ \E t \in Tasks : StartAttempt(t)
    \/ \E t \in Tasks, r \in Responses : ModelResponse(t, r)
    \/ \E t \in Tasks : SaveHistory(t)

Spec == Init /\ [][Next]_vars

\* ---- the switch B -> A: exactly one agent is active before any request ----
InitOneActive ==
    /\ Init
    /\ Cardinality(ActiveSet) = 1

SpecSwitch == InitOneActive /\ [][Next]_vars

\* ---- activations one at a time: no save() starts while another is between ----
\* ---- its two statements. The prior flags are none active or several      ----
\* ---- active; a single active agent is what the first activation leaves.  ----
InitSolo ==
    /\ is_active \in {f \in [Agents -> BOOLEAN] : Cardinality({a \in Agents : f[a]}) # 1}
    /\ InitTasks
    /\ seed = NoSeed

ActivateAlone(a) ==
    /\ InFlight = 0
    /\ ActivateBegin(a)

NextSolo ==
    \/ \E a \in Agents : ActivateAlone(a)
    \/ \E a \in Agents : ActivateSave(a)
    \/ \E t \in Tasks, u \in Users, m \in Messages : SendMessage(t, u, m)
    \/ \E t \in Tasks, uid \in UserIds, m \in Messages : Delay(t, uid, m)
    \/ \E t \in Tasks : StartAttempt(t)
    \/ \E t \in Tasks, r \in Responses : ModelResponse(t, r)
    \/ \E t \in Tasks : SaveHistory(t)

SpecSolo == InitSolo /\ [][NextSolo]_vars

\* ---- outage: the model endpoint answers every request with HTTP 503 ----
ServiceUnavailable == [kind |-> "status", code |-> 503, body |-> ""]

NextOutage ==
    \/ \E a \in Agents : ActivateBegin(a)
    \/ \E a \in Agents : ActivateSave(a)
    \/ \E t \in Tasks, u \in Users, m \in Messages : SendMessage(t, u, m)
    \/ \E t \in Tasks, uid \in UserIds, m \in Messages : Delay(t, uid, m)
    \/ \E t \in Tasks : StartAttempt(t)
    \/ \E t \in Tasks : ModelResponse(t, ServiceUnavailable)

SpecOutage == Init /\ [][NextOutage]_vars

\* ---- conversation: turns of one user with a complete active agent, on top ----
\* ---- of the history that n earlier turns have stored; the endpoint is up  ----
\* ---- and no agent is switched.                                             ----
Turns == 1..NumTurns

\* What n successful turns leave in a history row: turn k stored its pair at tick k.
PriorHistory(n) ==
    [i \in 1..(2 * n) |->
        [role |-> IF i % 2 = 1 THEN "user" ELSE "assistant",
         content |-> (IF i % 2 = 1 THEN "question " ELSE "answer ") \o ToString((i + 1) \div 2),
         timestamp |-> (i + 1) \div 2]]

\* none; one exchange more than the prompt shows; one below the cap; at the cap
PriorPairs == {0, limit \div 2 + 1, MAX_HISTORY_ENTRIES - 1, MAX_HISTORY_ENTRIES}

CompleteAgents ==
    {a \in Agents : /\ default_prompt_template(a) # ""
                    /\ ~EndpointsInvalid(EndpointList(ollama_endpoints(a)))}

ChatBodies == {"no json", "[]", "{tool_to_use,parameters}",
               "Sure! {answer_to_user,updated_aigent_state,updated_user_state} Anything else?",
               "{updated_aigent_state,updated_user_state}",
               "{answer_to_user,updated_user_state}",
               "{answer_to_user,updated_aigent_state}",
               "{answer_to_user,updated_aigent_state,updated_user_state}",
               "{answer_to_user,updated_aigent_state:null,updated_user_state:[]}"}

ChatResponses == [kind : {"ok"}, code : {200}, body : ChatBodies]

InitChat ==
    /\ \E a \in CompleteAgents, n \in PriorPairs :
          /\ is_active = [x \in Agents |-> x = a]
          /\ history = [u \in Users |-> [x \in Agents |-> IF x = a THEN PriorHistory(n) ELSE <<>>]]
          /\ chat_row = [u \in Users |-> [x \in Agents |->
                            IF x = a /\ n > 0 THEN "list" ELSE "DoesNotExist"]]
          /\ clock = n
    /\ saving = [a \in Agents |-> 0]
    /\ InitStates
    /\ InitLocals(Turns)
    /\ history_response = [u \in Users |-> NoHistoryResponse]
    /\ send_response = [u \in Users |-> NoSendResponse]
    /\ seed = NoSeed

NextChat ==
    \/ \E t \in Turns, u \in Users, m \in Messages : SendMessage(t, u, m)
    \/ \E t \in Turns : StartAttempt(t)
    \/ \E t \in Turns, r \in ChatResponses : ModelResponse(t, r)
    \/ \E t \in Turns : SaveHistory(t)

SpecChat == InitChat /\ [][NextChat]_vars

\* ---- context: one complete agent is active; its state, the user's state,   ----
\* ---- their chat-history row and the placeholders of the agent's template  ----
\* ---- are whatever an operator or an earlier version may have stored.      ----
StoredStates == {get_default_aigent_state, JsonNull, JsonArray("[]")}

\* no row; a row holding null; an empty list; one exchange; a list of eleven
\* entries whose first is a string; one exchange followed by a string
StoredRows ==
    {[row |-> "DoesNotExist", history |-> <<>>],
     [row |-> "other", history |-> <<>>],
     [row |-> "list", history |-> <<>>],
     [row |-> "list", history |-> PriorHistory(1)],
     [row |-> "list", history |-> <<JsonString("oops")>> \o PriorHistory(limit \div 2)],
     [row |-> "list", history |-> PriorHistory(1) \o <<JsonString("oops")>>]}

Templates == {StandardPlaceholders, StandardPlaceholders \cup ToolPlaceholders,
              {"current_user_message", "current_datetime"}}

ContextBodies == {"no json", "{answer_to_user,updated_aigent_state,updated_user_state}"}
ContextResponses == [kind : {"ok"}, code : {200}, body : ContextBodies]

InitContext ==
    /\ \E a \in CompleteAgents, stored \in StoredRows, tpl \in Templates,
          ast \in StoredStates, ust \in StoredStates :
          /\ is_active = [x \in Agents |-> x = a]
          /\ history = [u \in Users |-> [x \in Agents |-> IF x = a THEN stored.history ELSE <<>>]]
          /\ chat_row = [u \in Users |-> [x \in Agents |->
                            IF x = a THEN stored.row ELSE "DoesNotExist"]]
          /\ template_str = [x \in Agents |-> IF x = a THEN tpl ELSE StandardPlaceholders]
          /\ aigent_state = [x \in Agents |-> IF x = a THEN ast ELSE get_default_aigent_state]
          /\ user_state = [u \in Users |-> ust]
    /\ endpoints = [a \in Agents |-> EndpointList(ollama_endpoints(a))]
    /\ saving = [a \in Agents |-> 0]
    /\ clock = 0
    /\ InitLocals(Tasks)
    /\ history_response = [u \in Users |-> NoHistoryResponse]
    /\ send_response = [u \in Users |-> NoSendResponse]
    /\ seed = NoSeed

NextContext ==
    \/ \E t \in Tasks, u \in Users, m \in Messages : SendMessage(t, u, m)
    \/ \E t \in Tasks : StartAttempt(t)
    \/ \E t \in Tasks, r \in ContextResponses : ModelResponse(t, r)
    \/ \E t \in Tasks : SaveHistory(t)

SpecContext == InitContext /\ [][NextContext]_vars

\* ---- tools/executor.py: execute_tool, called from outside any turn ----
TOOL_REGISTRY ==
    [web_search |-> "tools.tool_library.web_search.search_web",
     manage_calendar |-> "tools.tool_library.calendar_tool.manage_calendar"]

None == ""

\* None for a name that is not registered, else the imported function
get_tool_function(tool_name) ==
    IF tool_name \notin DOMAIN TOOL_REGISTRY THEN None ELSE TOOL_REGISTRY[tool_name]

\* inspect.iscoroutinefunction: search_web is async def, manage_calendar is def
iscoroutinefunction(function) == function = TOOL_REGISTRY.web_search

\* search_web(query, **kwargs); manage_calendar(action, user_id, **kwargs)
RequiredParameters(function) ==
    IF function = TOOL_REGISTRY.web_search THEN {"query"} ELSE {"action", "user_id"}

\* The `parameters` argument: a JSON value, with its keys when it is an object.
ToolNames == {"web_search", "manage_calendar", "calculator", ""}
ToolParameters ==
    {[type |-> "dict", keys |-> {}],
     [type |-> "dict", keys |-> {"query"}],
     [type |-> "dict", keys |-> {"query", "language"}],
     [type |-> "dict", keys |-> {"action", "user_id"}],
     [type |-> "NoneType", keys |-> {}],
     [type |-> "list", keys |-> {}]}

\* tool_function(**parameters) binds: parameters is a mapping and names every
\* required parameter (both signatures take **kwargs); else TypeError
Binds(function, parameters) ==
    parameters.type = "dict" /\ RequiredParameters(function) \subseteq parameters.keys

\* what a tool body does when it ends: a return value or an exception
ToolOutcomes ==
    {[kind |-> "return", value |-> JsonString("Paris is the capital of France.")],
     [kind |-> "return", value |-> JsonNull],
     [kind |-> "raise", value |-> JsonString("TypeError")],
     [kind |-> "raise", value |-> JsonString("ValueError")]}

\* str(result)
py_str(value) == IF value.type = "NoneType" THEN "None" ELSE value.text

NotAvailable(tool_name) ==
    "Error: Tool '" \o tool_name \o "' is not available or configured incorrectly."
InvalidParameters(tool_name, e) ==
    "Error: Invalid parameters for tool '" \o tool_name \o "'. " \o e
UnexpectedToolError(e) ==
    "Error: An unexpected error occurred while running the tool: " \o e

\* (variant: only except TypeError, anything else leaves execute_tool)
CaughtTypeErrorOnly(tool_name, exc) ==
    IF exc = "TypeError"
      THEN [raised |-> "", result |-> InvalidParameters(tool_name, exc)]
      ELSE [raised |-> exc, result |-> ""]

\* except TypeError as e: ...; except Exception as e: ...
Caught(tool_name, exc) ==
    IF exc = "TypeError"
      THEN [raised |-> "", result |-> InvalidParameters(tool_name, exc)]
      ELSE [raised |-> "", result |-> UnexpectedToolError(exc)]

\* (variant: result = tool_function(**parameters) for every tool; a coroutine
\* function then hands back its coroutine object, which has not run)
CallToolDirectly(function, in_event_loop) ==
    IF iscoroutinefunction(function)
      THEN [kind |-> "return", value |-> "<coroutine object search_web>"]
      ELSE [kind |-> "run", value |-> ""]

\* asyncio.run(tool_function(**parameters)) for a coroutine function: it runs
\* the coroutine until it is done, and raises RuntimeError when called from a
\* running event loop; a plain function runs in the caller's thread.
CallTool(function, in_event_loop) ==
    IF iscoroutinefunction(function) /\ in_event_loop
      THEN [kind |-> "raise", value |-> "RuntimeError"]
      ELSE [kind |-> "run", value |-> ""]

Returned(call, ran, outcome) ==
    [call EXCEPT !.pc = IF outcome.raised = "" THEN "returned" ELSE "raised",
                 !.ran = ran, !.raised = outcome.raised, !.result = outcome.result]

execute_tool(c, tool_name, parameters, in_event_loop) ==
    /\ executor.pc # "running" /\ executor.pc # "suspended"
    /\ tool_invocations[c] < NumToolCalls
    /\ tool_invocations' = [tool_invocations EXCEPT ![c] = @ + 1]
    /\ LET function == get_tool_function(tool_name)
           call == [pc |-> "running", caller |-> c, tool_name |-> tool_name,
                    parameters |-> parameters,
                    function |-> function, ran |-> "no", awaited |-> FALSE,
                    raised |-> "", result |-> ""]
       IN  IF function = None
             THEN executor' = Returned(call, "no", [raised |-> "", result |-> NotAvailable(tool_name)])
           ELSE IF ~Binds(function, parameters)
             THEN executor' = Returned(call, "no", Caught(tool_name, "TypeError"))
           ELSE LET started == CallTool(function, in_event_loop) IN
                CASE started.kind = "raise" ->
                         executor' = Returned(call, "no", Caught(tool_name, started.value))
                  [] started.kind = "return" ->
                         executor' = Returned(call, "pending", [raised |-> "", result |-> started.value])
                  [] OTHER -> executor' = [call EXCEPT !.ran = "pending"]
    /\ UNCHANGED <<agentVars, historyVars, taskVars, viewVars, seedVars>>

\* the coroutine of a running tool reaches an await; the event loop of
\* asyncio.run waits for its I/O
ToolAwaits ==
    /\ executor.pc = "running"
    /\ iscoroutinefunction(executor.function)
    /\ executor' = [executor EXCEPT !.pc = "suspended", !.awaited = TRUE]
    /\ UNCHANGED <<agentVars, historyVars, taskVars, tool_invocations, viewVars, seedVars>>

ToolResumes ==
    /\ executor.pc = "suspended"
    /\ executor' = [executor EXCEPT !.pc = "running"]
    /\ UNCHANGED <<agentVars, historyVars, taskVars, tool_invocations, viewVars, seedVars>>

\* the tool body ends; execute_tool returns str(result) or the error string
ToolEnds(outcome) ==
    /\ executor.pc = "running"
    /\ executor' =
          IF outcome.kind = "return"
            THEN Returned(executor, "completed", [raised |-> "", result |-> py_str(outcome.value)])
            ELSE Returned(executor, "raised", Caught(executor.tool_name, outcome.value.text))
    /\ UNCHANGED <<agentVars, historyVars, taskVars, tool_invocations, viewVars, seedVars>>

NextTools ==
    \/ \E n \in ToolNames, p \in ToolParameters, l \in BOOLEAN : execute_tool(NoTask, n, p, l)
    \/ ToolAwaits
    \/ ToolResumes
    \/ \E o \in ToolOutcomes : ToolEnds(o)

SpecTools == Init /\ [][NextTools]_vars

\* ---- TaskStatusView.get: the client polls the task it has dispatched ----
\* AsyncResult.status of a task id the result backend has no record for
AsyncStatus(t) == IF status[t] = "NONE" THEN "PENDING" ELSE status[t]

\* the dict the task returned, as the result backend stores it
TaskResult(t) ==
    [answer_to_user |-> info[t].answer_to_user,
     updated_aigent_state_debug |-> info[t].updated_aigent_state_debug,
     updated_user_state_debug |-> info[t].updated_user_state_debug]

\* (variant: response_data["result"] = task_result_data, as in the else branch)
ResultAsStored(task_result_data) == task_result_data

\* response_data["result"] = {"answer_to_user": ...} for a dict with that key
ResultShown(task_result_data) ==
    IF "answer_to_user" \in DOMAIN task_result_data
      THEN [answer_to_user |-> task_result_data.answer_to_user]
      ELSE task_result_data

\* response_data = {"task_id": ..., "status": async_result.status}
StatusRead(t) ==
    /\ response_data[t].pc # "status read"
    /\ response_data' = [response_data EXCEPT ![t] =
          [pc |-> "status read", status |-> AsyncStatus(t), result |-> NoResult,
           error_message |-> ""]]
    /\ UNCHANGED <<agentVars, historyVars, taskVars, toolVars, history_response, send_response,
                   seedVars>>

\* successful() / failed() / status == 'RETRY' read the state again, then the
\* response is serialized
StatusRespond(t) ==
    /\ response_data[t].pc = "status read"
    /\ response_data' = [response_data EXCEPT ![t] =
          CASE status[t] = "SUCCESS" ->
                  [@ EXCEPT !.pc = "sent", !.result = ResultShown(TaskResult(t))]
            [] status[t] = "FAILURE" ->
                  [@ EXCEPT !.pc = "sent", !.error_message = info[t].msg]
            [] status[t] = "RETRY" ->
                  [@ EXCEPT !.pc = "sent",
                            !.error_message = "Task is being retried. Info: " \o info[t].msg]
            [] OTHER -> [@ EXCEPT !.pc = "sent"]]
    /\ UNCHANGED <<agentVars, historyVars, taskVars, toolVars, history_response, send_response,
                   seedVars>>

StatusBodies == {"no json", "{answer_to_user,updated_aigent_state,updated_user_state}",
                 "{answer_to_user,updated_aigent_state:null,updated_user_state:[]}"}
StatusResponses ==
    [kind : {"ok"}, code : {200}, body : StatusBodies] \cup {ServiceUnavailable}

NextStatus ==
    \/ \E t \in Tasks, u \in Users, m \in Messages : SendMessage(t, u, m)
    \/ \E t \in Tasks : StartAttempt(t)
    \/ \E t \in Tasks, r \in StatusResponses : ModelResponse(t, r)
    \/ \E t \in Tasks : SaveHistory(t)
    \/ \E t \in Tasks : StatusRead(t)
    \/ \E t \in Tasks : StatusRespond(t)

SpecStatus == InitOneActive /\ [][NextStatus]_vars

\* ---- SendMessageView and ChatHistoryView: TEST_USER_ID sends messages, and  ----
\* ---- users read and delete their history with the active agent while a    ----
\* ---- turn may be in flight. The flags are whatever earlier activations    ----
\* ---- have left (none, one, several active); a second user has histories   ----
\* ---- of their own; no agent is switched.                                  ----
OtherUser == TEST_USER_ID + 2
Requesters == {TEST_USER_ID, OtherUser}

\* (variant: the active agent is looked up as the task does it,
\* .filter(is_active=True).first(), which never finds several)
ActiveAigentFirst ==
    IF ActiveSet = {} THEN [raised |-> "DoesNotExist", aigent |-> NoAigent]
    ELSE [raised |-> "", aigent |-> FirstActive]

\* Aigent.objects.get(is_active=True): DoesNotExist, or MultipleObjectsReturned
ActiveAigent ==
    IF ActiveSet = {} THEN [raised |-> "DoesNotExist", aigent |-> NoAigent]
    ELSE IF Cardinality(ActiveSet) > 1 THEN [raised |-> "MultipleObjectsReturned", aigent |-> NoAigent]
    ELSE [raised |-> "", aigent |-> FirstActive]

\* SendMessageView.post: 503 / 500 when the lookup of the active agent raises,
\* else the task is dispatched and 202 carries its id
post(u, m) ==
    LET active_aigent == ActiveAigent IN
    IF active_aigent.raised = "DoesNotExist"
      THEN /\ send_response' = [send_response EXCEPT ![u] = [status_code |-> 503, task_id |-> NoTask]]
           /\ UNCHANGED <<agentVars, historyVars, taskVars, toolVars, response_data,
                          history_response, seedVars>>
    ELSE IF active_aigent.raised = "MultipleObjectsReturned"
      THEN /\ send_response' = [send_response EXCEPT ![u] = [status_code |-> 500, task_id |-> NoTask]]
           /\ UNCHANGED <<agentVars, historyVars, taskVars, toolVars, response_data,
                          history_response, seedVars>>
    ELSE \E t \in DOMAIN status :
           /\ apply_async(t, u, m)
           /\ send_response' = [send_response EXCEPT ![u] = [status_code |-> 202, task_id |-> t]]
           /\ UNCHANGED <<response_data, history_response, seedVars>>

\* ChatHistoryView.get
GetHistory(u) ==
    /\ history_response' = [history_response EXCEPT ![u] =
          IF ActiveAigent.raised # ""
            THEN [method |-> "GET", status_code |-> 200, aigent |-> NoAigent,
                  history |-> <<>>, clock |-> clock]
            ELSE [method |-> "GET", status_code |-> 200, aigent |-> ActiveAigent.aigent,
                  history |-> HistoryList(chat_row[u][ActiveAigent.aigent],
                                          history[u][ActiveAigent.aigent]),
                  clock |-> clock]]
    /\ UNCHANGED <<agentVars, historyVars, taskVars, toolVars, response_data, send_response,
                   seedVars>>

\* ChatHistoryView.delete: ChatHistory.objects.filter(user=user, aigent=active_aigent).delete()
DeleteHistory(u) ==
    /\ IF ActiveAigent.raised # ""
         THEN /\ history_response' = [history_response EXCEPT ![u] =
                    [method |-> "DELETE", status_code |-> 500, aigent |-> NoAigent,
                     history |-> <<>>, clock |-> clock]]
              /\ UNCHANGED historyVars
         ELSE LET a == ActiveAigent.aigent IN
              /\ history' = [history EXCEPT ![u][a] = <<>>]
              /\ chat_row' = [chat_row EXCEPT ![u][a] = "DoesNotExist"]
              /\ history_response' = [history_response EXCEPT ![u] =
                    [method |-> "DELETE", status_code |-> 204, aigent |-> a,
                     history |-> <<>>, clock |-> clock]]
    /\ UNCHANGED <<agentVars, taskVars, toolVars, response_data, send_response, seedVars>>

\* the histories stored before: none, one exchange, or the cap
StoredPairs == {0, 1, MAX_HISTORY_ENTRIES}

HistoryBodies == {"no json", "{answer_to_user,updated_aigent_state,updated_user_state}"}
HistoryResponses == [kind : {"ok"}, code : {200}, body : HistoryBodies]

InitViews ==
    /\ is_active \in [Agents -> BOOLEAN]
    /\ \E n \in StoredPairs :
          /\ history = [u \in Requesters |-> [a \in Agents |-> PriorHistory(n)]]
          /\ chat_row = [u \in Requesters |-> [a \in Agents |->
                            IF n > 0 THEN "list" ELSE "DoesNotExist"]]
          /\ clock = n
    /\ saving = [a \in Agents |-> 0]
    /\ InitStates
    /\ InitLocals(Tasks)
    /\ history_response = [u \in Requesters |-> NoHistoryResponse]
    /\ send_response = [u \in Requesters |-> NoSendResponse]
    /\ seed = NoSeed

NextViews ==
    \/ \E u \in Users, m \in Messages : post(u, m)
    \/ \E t \in Tasks : StartAttempt(t)
    \/ \E t \in Tasks, r \in HistoryResponses : ModelResponse(t, r)
    \/ \E t \in Tasks : SaveHistory(t)
    \/ \E u \in Requesters : GetHistory(u)
    \/ \E u \in Requesters : DeleteHistory(u)

SpecViews == InitViews /\ [][NextViews]_vars

\* ---- endpoints: the active agent has a prompt template, and its endpoint   ----
\* ---- column holds whatever an operator has stored; the model endpoint may ----
\* ---- answer 200 without a usable `response` field.                        ----
\* []; [""]; ["", url]; a string; {}; null; [url]; [url, ""]
StoredEndpoints ==
    {EndpointList(<<>>),
     EndpointList(<<"">>),
     EndpointList(<<"", "http://ollama-1:11434/">>),
     [type |-> "str", items |-> <<"http://ollama-1:11434/">>],
     [type |-> "dict", items |-> <<>>],
     [type |-> "NoneType", items |-> <<>>],
     EndpointList(<<"http://ollama-1:11434/">>),
     EndpointList(<<"http://ollama-1:11434/", "">>)}

\* ollama_data.get("response") is "" or None
EmptyField == [kind |-> "ok", code |-> 200, body |-> ""]
MissingField == [kind |-> "ok, no response field", code |-> 200, body |-> None]

EndpointResponses ==
    {EmptyField, MissingField, ServiceUnavailable,
     [kind |-> "ok", code |-> 200,
      body |-> "{answer_to_user,updated_aigent_state,updated_user_state}"]}

InitEndpoints ==
    /\ \E a \in {x \in Agents : default_prompt_template(x) # ""}, value \in StoredEndpoints :
          /\ is_active = [x \in Agents |-> x = a]
          /\ endpoints = [x \in Agents |->
                            IF x = a THEN value ELSE EndpointList(ollama_endpoints(x))]
    /\ saving = [a \in Agents |-> 0]
    /\ history = [u \in Users |-> [a \in Agents |-> <<>>]]
    /\ chat_row = [u \in Users |-> [a \in Agents |-> "DoesNotExist"]]
    /\ clock = 0
    /\ aigent_state = [a \in Agents |-> get_default_aigent_state]
    /\ user_state = [u \in Users |-> get_default_user_state]
    /\ template_str = [a \in Agents |-> StandardPlaceholders]
    /\ InitLocals(Tasks)
    /\ history_response = [u \in Users |-> NoHistoryResponse]
    /\ send_response = [u \in Users |-> NoSendResponse]
    /\ seed = NoSeed

NextEndpoints ==
    \/ \E t \in Tasks, u \in Users, m \in Messages : SendMessage(t, u, m)
    \/ \E t \in Tasks : StartAttempt(t)
    \/ \E t \in Tasks, r \in EndpointResponses : ModelResponse(t, r)
    \/ \E t \in Tasks : SaveHistory(t)

SpecEndpoints == InitEndpoints /\ [][NextEndpoints]_vars

\* ---- seed_initial_data: the command runs on a database in which any of the ----
\* ---- agents may have a row already, with whatever flags earlier requests  ----
\* ---- have left. An agent's name is its number; the other columns of a     ----
\* ---- fixture entry are those the row is seeded with.                      ----
\* an entry of the "aigents" list: its name (none: NoAigent) and its is_active
SeedEntries == [name : Agents \cup {NoAigent}, is_active : BOOLEAN]

\* (variant: the flag of the fixture is used as it is)
NoOtherActive(flags, a) == FALSE

\* Aigent.objects.filter(is_active=True).exclude(name=aigent_name).exists()
OtherActiveExists(flags, a) == \E x \in Agents : x # a /\ flags[x]

\* Aigent.save() of a row with the given flag, as create() and
\* update_or_create() call it
SaveAigent(flags, a, flag) ==
    IF flag THEN SaveRow(DeactivateOthers(flags, a), a)
            ELSE [flags EXCEPT ![a] = FALSE]

\* Command.handle: the options are read and the fixture is loaded
handle(overwrite) ==
    /\ seed.pc \in {"idle", "done"}
    /\ seed' = [seed EXCEPT !.pc = "seeding", !.overwrite = overwrite, !.entries = 0,
                            !.last = NoEntry, !.created = FALSE]
    /\ UNCHANGED <<agentVars, historyVars, taskVars, toolVars, viewVars>>

\* one pass of the loop of Command.seed_aigents
seed_aigents(aigent_data) ==
    /\ seed.pc = "seeding"
    /\ seed.entries < NumEntries
    /\ LET aigent_name == aigent_data.name
           exists == aigent_name \in seed.rows
           seeded == [seed EXCEPT !.entries = @ + 1, !.last = aigent_data]
       IN  IF aigent_name = NoAigent
             THEN /\ seed' = [seeded EXCEPT !.created = FALSE]
                  /\ UNCHANGED is_active
           ELSE IF seed.overwrite
             THEN \* update(is_active=False) on the others, then update_or_create
                  LET flags == IF aigent_data.is_active
                                 THEN DeactivateOthers(is_active, aigent_name)
                                 ELSE is_active
                  IN  /\ is_active' = SaveAigent(flags, aigent_name, aigent_data.is_active)
                      /\ seed' = [seeded EXCEPT !.created = ~exists,
                                                !.rows = @ \cup {aigent_name}]
           ELSE \* the flag is dropped when another agent is active, then get_or_create
                LET flag == aigent_data.is_active /\ ~OtherActiveExists(is_active, aigent_name)
                IN  /\ is_active' = IF exists THEN is_active
                                               ELSE SaveAigent(is_active, aigent_name, flag)
                    /\ seed' = [seeded EXCEPT !.created = ~exists,
                                              !.rows = @ \cup {aigent_name}]
    /\ UNCHANGED <<saving, historyVars, taskVars, toolVars, viewVars>>

\* the loop is over and the transaction of handle commits
SeedingCompleted ==
    /\ seed.pc = "seeding"
    /\ seed' = [seed EXCEPT !.pc = "done"]
    /\ UNCHANGED <<agentVars, historyVars, taskVars, toolVars, viewVars>>

InitSeed ==
    /\ \E rows \in SUBSET Agents :
          /\ seed = [NoSeed EXCEPT !.rows = rows]
          /\ is_active \in {f \in [Agents -> BOOLEAN] : \A a \in Agents : f[a] => a \in rows}
    /\ InitTasks

NextSeed ==
    \/ \E overwrite \in BOOLEAN : handle(overwrite)
    \/ \E aigent_data \in SeedEntries : seed_aigents(aigent_data)
    \/ SeedingCompleted

SpecSeed == InitSeed /\ [][NextSeed]_vars

\* ---- fairness: a worker eventually runs every queued attempt (first run or ----
\* ---- retry), every model call ends, and a running attempt is not abandoned. ----
FairSpec ==
    /\ Spec
    /\ \A t \in Tasks : WF_vars(StartAttempt(t))
    /\ \A t \in Tasks : WF_vars(\E r \in Responses : ModelResponse(t, r))
    /\ \A t \in Tasks : WF_vars(SaveHistory(t))

\* ======================= properties =======================

Dispatched(t) == status[t] # "NONE"
AttemptOver(t) == pc[t] # "calling" /\ pc[t] # "history"
Is5xx(c) == c \in 500..599
TransientResponse(r) == r.kind = "request_error" \/ (r.kind = "status" /\ Is5xx(r.code))
\* a step in which the outstanding call of t is answered
CallEnds(t) == pc[t] = "calling" /\ pc'[t] # "calling"
TransientError(e) == e.exc = "RequestError" \/ (e.exc = "HTTPStatusError" /\ Is5xx(e.code))

\* C1: in every reachable state, under any interleaving of activation
\* requests, at most one agent has is_active = true.
C1_AtMostOneActive == Cardinality(ActiveSet) <= 1

\* C2: a switch of the active agent from B to A is atomic for observers: with
\* one agent active before any request, no turn's SETUP ever finds an
\* intermediate state in which no agent is active.
C2_NoObservedGap ==
    \A t \in Tasks : ~(status[t] = "FAILURE" /\ info[t].msg = "No active Aigent found.")

\* C3: an activation of agent a that runs without interference leaves a active
\* and every other agent inactive, whatever the flags were before (one other
\* agent active, several active, none active).
C3_ActivationLeavesOnlyTarget ==
    [][\A a \in Agents : ActivateSave(a) => ActiveSet' = {a}]_vars

C3_Witness ==
    /\ InFlight = 0
    /\ ActiveSet = {1}

\* C4 (as stated): once the endpoint has answered 503 on three consecutive
\* attempts, the retry budget is exhausted and the task is in FAILURE.
C4_ThreeFailuresExhaust ==
    \A t \in Tasks : (total_calls[t] = 3 /\ AttemptOver(t)) => status[t] = "FAILURE"

\* C4 (amended): under an endpoint that always answers 503, the task fails with
\* the transport error exactly when its fourth attempt (the first run plus
\* max_retries retries) has been answered; until then every 503 leaves it in RETRY.
C4_FourFailuresExhaust ==
    \A t \in Tasks :
        /\ (total_calls[t] = max_retries + 1 /\ AttemptOver(t))
              => (status[t] = "FAILURE" /\ info[t] = HttpError(503))
        /\ (status[t] = "FAILURE" /\ info[t].exc = "HTTPStatusError")
              => total_calls[t] = max_retries + 1
        /\ (total_calls[t] \in 1..max_retries /\ AttemptOver(t) /\ calls[t] = 1)
              => (status[t] = "RETRY" /\ info[t] = HttpError(503))

C4_Witness ==
    \E t \in Tasks :
        /\ status[t] = "FAILURE"
        /\ info[t] = HttpError(503)
        /\ total_calls[t] = 4

\* C5: a task never makes more than max_retries + 1 attempts, hence never more
\* than max_retries + 1 model calls, whatever the endpoint answers.
C5_AttemptsBounded ==
    \A t \in Tasks :
        /\ retries[t] <= max_retries
        /\ total_calls[t] <= retries[t] + 1
        /\ total_calls[t] <= max_retries + 1

C5_Witness ==
    \E t \in Tasks :
        /\ total_calls[t] = max_retries + 1
        /\ status[t] = "SUCCESS"

\* C6: a 5xx status or a connection/timeout error schedules a retry whenever
\* retry budget remains; any other HTTP error status fails the task on that
\* attempt, and a failed task is never run again.
C6_Classification ==
    [][\A t \in Tasks :
          /\ CallEnds(t) => \A r \in Responses :
                (r.kind # "ok" /\ ModelResponse(t, r)) =>
                   /\ (TransientResponse(r) /\ retries[t] < max_retries)
                         => (status'[t] = "RETRY" /\ retries'[t] = retries[t] + 1)
                   /\ (r.kind = "status" /\ ~Is5xx(r.code))
                         => (status'[t] = "FAILURE" /\ retries'[t] = retries[t]
                             /\ countdowns'[t] = countdowns[t])
          /\ status[t] = "FAILURE"
                => (status'[t] = "FAILURE" /\ total_calls'[t] = total_calls[t])
      ]_vars

C6_Witness ==
    \E t \in Tasks :
        /\ status[t] = "FAILURE"
        /\ info[t] = HttpError(404)
        /\ retries[t] = 1
        /\ total_calls[t] = 2

\* C7: the k-th retry of a task is scheduled with countdown
\* default_retry_delay * k (60, 120, 180), so the delays strictly increase.
C7_Backoff ==
    \A t \in Tasks :
        /\ Len(countdowns[t]) = retries[t]
        /\ \A k \in 1..Len(countdowns[t]) :
              /\ countdowns[t][k] = default_retry_delay * k
              /\ k > 1 => countdowns[t][k] > countdowns[t][k - 1]

C7_Witness ==
    \E t \in Tasks : countdowns[t] = <<60, 120, 180>>

\* C8: a task is in FAILURE for a transient transport error only when its
\* retries are exhausted, before that the error leaves it in RETRY and queued
\* to run again; RETRY is never reported for a terminal-class error, and
\* every FAILURE carries a message.
C8_FailureOnlyWhenExhausted ==
    \A t \in Tasks :
        /\ (status[t] = "FAILURE" /\ TransientError(info[t])) => retries[t] = max_retries
        /\ status[t] = "RETRY"
              => (TransientError(info[t]) /\ pc[t] = "queued" /\ retries[t] \in 1..max_retries)
        /\ status[t] = "FAILURE" => (info[t].msg # "" /\ pc[t] = "done")
        /\ (Dispatched(t) /\ AttemptOver(t) /\ info[t].exc # "" /\ ~TransientError(info[t]))
              => status[t] = "FAILURE"

C8_Witness ==
    \E t \in Tasks :
        /\ status[t] = "FAILURE"
        /\ info[t].exc = "RequestError"
        /\ retries[t] = max_retries
        /\ total_calls[t] = max_retries + 1

\* C9: every dispatched task eventually reaches SUCCESS or FAILURE.
C9_Termination ==
    \A t \in Tasks : Dispatched(t) ~> (status[t] \in {"SUCCESS", "FAILURE"})

C9_Witness ==
    \E t \in Tasks :
        /\ status[t] = "SUCCESS"
        /\ retries[t] = max_retries

\* C10: each SETUP failure (requesting user missing, no agent active, the active
\* agent without a prompt template) fails the task on that attempt with a
\* message naming that cause, makes no model call in the attempt and schedules
\* no retry.
SetupFails(t, m) ==
    /\ status'[t] = "FAILURE"
    /\ info'[t].msg = m
    /\ calls'[t] = 0
    /\ total_calls'[t] = total_calls[t]
    /\ retries'[t] = retries[t]
    /\ countdowns'[t] = countdowns[t]

C10_SetupFailures ==
    [][\A t \in Tasks :
          /\ StartAttempt(t) =>
                /\ user_id[t] \notin Users
                      => SetupFails(t, "User matching query does not exist.")
                /\ (user_id[t] \in Users /\ ActiveSet = {})
                      => SetupFails(t, "No active Aigent found.")
                /\ (user_id[t] \in Users /\ ActiveSet # {}
                      /\ default_prompt_template(FirstActive) = "")
                      => SetupFails(t, "Aigent has no default prompt template assigned.")
          /\ (status[t] = "FAILURE" /\ info[t].exc = "DoesNotExist")
                => (status'[t] = "FAILURE" /\ calls'[t] = 0)
      ]_vars

C10_Witness ==
    \E t \in Tasks :
        /\ status[t] = "FAILURE"
        /\ info[t] = ConfigError("Aigent has no default prompt template assigned.")
        /\ calls[t] = 0
        /\ retries[t] = 1

\* ---- the turn's result and stores (C11 .. C20) ----
Slots == DOMAIN status
LacksRequiredKey(r) ==
    /\ r.kind = "ok"
    /\ json_loads(r.body).type = "dict"
    /\ \E k \in {"answer_to_user", "updated_aigent_state", "updated_user_state"} :
          k \notin json_loads(r.body).keys

\* C11: a model reply that is a JSON object lacking answer_to_user,
\* updated_aigent_state or updated_user_state fails the task on that attempt
\* with a ValueError (data-processing) message: no retry is scheduled, and chat
\* history, agent state and user state stay as they were.
C11_MissingKeyFailsTerminally ==
    [][\A t \in Slots, r \in ChatResponses :
          (LacksRequiredKey(r) /\ ModelResponse(t, r)) =>
              /\ status'[t] = "FAILURE"
              /\ info'[t].exc = "ValueError"
              /\ pc'[t] = "done"
              /\ retries' = retries
              /\ countdowns' = countdowns
              /\ history' = history
              /\ aigent_state' = aigent_state
              /\ user_state' = user_state
      ]_vars

C11_Witness ==
    \E t \in Slots :
        /\ status[t] = "FAILURE"
        /\ info[t] = ValueError(MissingKeysMessage(json_loads("{answer_to_user,updated_aigent_state}")))
        /\ retries[t] = 0
        /\ history[user_id[t]][FirstActive] = PriorHistory(MAX_HISTORY_ENTRIES)

\* C12: a model reply whose text is no JSON fails the task with a ValueError
\* (data-processing) message on that attempt, after the one model call the
\* attempt made: no retry is scheduled and no further call follows; when it
\* is the first reply of the task, the task made exactly one call.
C12_UnparsableFailsAfterOneCall ==
    [][\A t \in Slots :
          /\ ModelResponse(t, [kind |-> "ok", code |-> 200, body |-> "no json"]) =>
                /\ status'[t] = "FAILURE"
                /\ info'[t].exc = "ValueError"
                /\ pc'[t] = "done"
                /\ calls'[t] = 1
                /\ retries'[t] = retries[t]
                /\ countdowns'[t] = countdowns[t]
                /\ retries[t] = 0 => total_calls'[t] = 1
          /\ (status[t] = "FAILURE" /\ info[t].exc = "ValueError")
                => (status'[t] = "FAILURE" /\ total_calls'[t] = total_calls[t]
                    /\ retries'[t] = retries[t])
      ]_vars

C12_Witness ==
    \E t \in Slots :
        /\ status[t] = "FAILURE"
        /\ info[t] = ValueError("JSONDecodeError")
        /\ total_calls[t] = 1
        /\ retries[t] = 0

\* C13: when the first model reply of a turn is a JSON object with
\* answer_to_user, updated_aigent_state and updated_user_state, the attempt does
\* not fail or retry, the turn ends in SUCCESS with the reply's answer_to_user
\* as its result, and the task has made exactly one model call.
DirectAnswers ==
    {<<"{answer_to_user,updated_aigent_state,updated_user_state}", "Hi!">>,
     <<"{answer_to_user,updated_aigent_state:null,updated_user_state:[]}", "Paris.">>}

C13_DirectAnswerOneCall ==
    [][\A t \in Slots :
          /\ \A d \in DirectAnswers :
                (total_calls[t] = 1 /\ ModelResponse(t, [kind |-> "ok", code |-> 200, body |-> d[1]])) =>
                    /\ pc'[t] = "history"
                    /\ status'[t] = "STARTED"
                    /\ answer'[t] = d[2]
                    /\ total_calls'[t] = 1
          /\ (pc[t] = "history" /\ (status'[t] # status[t] \/ pc'[t] # pc[t])) =>
                /\ status'[t] = "SUCCESS"
                /\ pc'[t] = "done"
                /\ info'[t].exc = ""
                /\ info'[t].answer_to_user = answer[t]
                /\ total_calls'[t] = total_calls[t]
          /\ status[t] = "SUCCESS" =>
                (status'[t] = "SUCCESS" /\ info'[t] = info[t] /\ total_calls'[t] = total_calls[t])
      ]_vars

C13_Witness ==
    \E t \in Slots :
        /\ status[t] = "SUCCESS"
        /\ info[t].answer_to_user = "Paris."
        /\ total_calls[t] = 1

\* C14: when the first model reply of a turn is a tool selection
\* {tool_to_use, parameters}, the turn does not end there: the attempt goes on
\* (tool dispatch, then a second model call) instead of failing.
ToolSelection == [kind |-> "ok", code |-> 200, body |-> "{tool_to_use,parameters}"]

C14_ToolSelectionEntersAct ==
    [][\A t \in Slots :
          (total_calls[t] = 1 /\ ModelResponse(t, ToolSelection)) =>
              (status'[t] = "STARTED" /\ pc'[t] # "done")
      ]_vars

\* C15: when a turn succeeds with object-valued updated_aigent_state and
\* updated_user_state in its final result, the stored state of its agent
\* equals the returned updated_aigent_state and the stored state of its user
\* equals the returned updated_user_state.
Succeeds(t) == status[t] # "SUCCESS" /\ status'[t] = "SUCCESS"

C15_StatesReplaced ==
    [][\A t \in Slots :
          (/\ Succeeds(t)
           /\ info'[t].updated_aigent_state_debug.type = "dict"
           /\ info'[t].updated_user_state_debug.type = "dict") =>
              /\ aigent_state'[aigent[t]] = info'[t].updated_aigent_state_debug
              /\ user_state'[user_id[t]] = info'[t].updated_user_state_debug
      ]_vars

\* C16: a final result whose updated_aigent_state or updated_user_state is not
\* a JSON object does not fail the turn: the attempt goes on to the history
\* update, the turn succeeds returning the answer, the pair (message, answer)
\* is the end of the stored history, and the stored state whose update was not
\* an object is unchanged.
NonObjectStates ==
    [kind |-> "ok", code |-> 200,
     body |-> "{answer_to_user,updated_aigent_state:null,updated_user_state:[]}"]

C16_NonObjectStateIgnored ==
    [][\A t \in Slots :
          /\ ModelResponse(t, NonObjectStates) =>
                (pc'[t] = "history" /\ status'[t] = "STARTED" /\ UNCHANGED stateVars)
          /\ Succeeds(t) =>
                LET h == history'[user_id[t]][aigent[t]] IN
                /\ info'[t].answer_to_user = answer[t]
                /\ Len(h) >= 2
                /\ h[Len(h) - 1].role = "user" /\ h[Len(h) - 1].content = message[t]
                /\ h[Len(h)].role = "assistant" /\ h[Len(h)].content = answer[t]
                /\ info'[t].updated_aigent_state_debug.type # "dict"
                      => aigent_state'[aigent[t]] = aigent_state[aigent[t]]
                /\ info'[t].updated_user_state_debug.type # "dict"
                      => user_state'[user_id[t]] = user_state[user_id[t]]
      ]_vars

C16_Witness ==
    \E t \in Slots :
        /\ status[t] = "SUCCESS"
        /\ info[t].updated_aigent_state_debug = JsonNull
        /\ info[t].updated_user_state_debug = JsonArray("[]")
        /\ aigent_state[aigent[t]] = get_default_aigent_state
        /\ user_state[user_id[t]] = get_default_user_state
        /\ history[user_id[t]][aigent[t]][Len(history[user_id[t]][aigent[t]])].content = "Paris."

\* C17: a successful turn appends exactly two entries to the stored history of
\* its (user, agent) pair: a role=user entry holding the user message, then a
\* role=assistant entry holding the answer, both with the same timestamp; what
\* was stored before stays in front of them (up to the retention bound).
IsSuffix(s, h) == Len(s) <= Len(h) /\ s = SubSeq(h, Len(h) - Len(s) + 1, Len(h))
StoredHistory(t) == history[user_id[t]][aigent[t]]

C17_TurnAppendsPair ==
    [][\A t \in Slots :
          Succeeds(t) =>
              LET old == StoredHistory(t)
                  new == history'[user_id[t]][aigent[t]]
                  k == Len(new)
              IN  /\ k >= 2
                  /\ new[k - 1].role = "user" /\ new[k - 1].content = message[t]
                  /\ new[k].role = "assistant" /\ new[k].content = answer[t]
                  /\ new[k - 1].timestamp = new[k].timestamp
                  /\ IsSuffix(SubSeq(new, 1, k - 2), old)
                  /\ Len(old) + 2 <= 2 * MAX_HISTORY_ENTRIES => SubSeq(new, 1, k - 2) = old
      ]_vars

\* C18: after every append the stored history has at most 2 * MAX_HISTORY_ENTRIES
\* (100) entries; an append that would exceed the bound drops only the oldest
\* entries of the list it appends to: what is stored is the tail of that list
\* in its order, followed by the new pair.
Retention == 2 * MAX_HISTORY_ENTRIES

C18_RetentionDropsOldest ==
    [][\A t \in Slots :
          /\ \A u \in Users, a \in Agents : Len(history'[u][a]) <= Retention
          /\ Succeeds(t) =>
                LET row == snapshot[t]
                    new == history'[user_id[t]][aigent[t]]
                    k == Len(new)
                IN  /\ k = (IF Len(row) + 2 > Retention THEN Retention ELSE Len(row) + 2)
                    /\ new[k - 1].content = message[t] /\ new[k].content = answer[t]
                    /\ new[k - 1].timestamp > (IF Len(row) = 0 THEN 0 ELSE row[Len(row)].timestamp)
                    /\ \A i \in 1..(k - 2) : new[i] = row[Len(row) - (k - 2) + i]
      ]_vars

C18_Witness ==
    \E u \in Users, a \in Agents :
        /\ Len(history[u][a]) = Retention
        /\ history[u][a][1].timestamp = 2
        /\ history[u][a][Retention - 2].timestamp = MAX_HISTORY_ENTRIES
        /\ history[u][a][Retention].timestamp = MAX_HISTORY_ENTRIES + 1

\* C19: under any sequence or interleaving of turns every stored history has
\* even length and alternates user, assistant, user, assistant, ... from a
\* user entry on, each assistant entry with the timestamp of the user entry
\* before it: the retention cut never splits a pair.
C19_HistoryAlternates ==
    \A u \in Users, a \in Agents :
        LET h == history[u][a] IN
        /\ Len(h) % 2 = 0
        /\ \A i \in 1..Len(h) :
              /\ h[i].role = (IF i % 2 = 1 THEN "user" ELSE "assistant")
              /\ i % 2 = 0 => h[i].timestamp = h[i - 1].timestamp

C19_Witness ==
    \E u \in Users, a \in Agents :
        /\ Len(history[u][a]) = Retention
        /\ history[u][a][1].timestamp = 3
        /\ history[u][a][Retention].timestamp = MAX_HISTORY_ENTRIES + 2

\* The text that shows the last n entries of h, one "Role: content" line per
\* entry in stored order, or the fixed text for an empty history.
RECURSIVE ShownFrom(_, _)
ShownFrom(h, i) ==
    IF i > Len(h) THEN ""
    ELSE (IF h[i].role = "user" THEN "User: " ELSE "Assistant: ") \o h[i].content
         \o (IF i < Len(h) THEN "\n" ELSE "") \o ShownFrom(h, i + 1)

Shown(h, n) ==
    IF h = <<>> THEN "No previous conversation history."
    ELSE ShownFrom(h, IF Len(h) > n THEN Len(h) - n + 1 ELSE 1)

Prompted(t) == StartAttempt(t) /\ pc'[t] = "calling"

\* C20 (as stated): the chat history placed in the prompt shows the last 10
\* exchanges (20 entries) of the stored history, in stored order, newest last.
C20_LastTenExchanges ==
    [][\A t \in Slots :
          Prompted(t) =>
              formatted_chat_history'[t] = Shown(history[user_id[t]][aigent'[t]], 2 * limit)
      ]_vars

\* C20 (amended): the chat history placed in the prompt shows the last 10
\* entries of the stored history, that is its 5 most recent exchanges, in
\* stored order with the newest last; older entries are omitted.
C20_LastTenEntries ==
    [][\A t \in Slots :
          Prompted(t) =>
              formatted_chat_history'[t] = Shown(history[user_id[t]][aigent'[t]], limit)
      ]_vars

C20_Witness ==
    \E t \in Slots :
        /\ pc[t] = "calling"
        /\ history[user_id[t]][aigent[t]] = PriorHistory(limit \div 2 + 1)
        /\ formatted_chat_history[t] = Shown(PriorHistory(limit \div 2 + 1), limit)
        /\ formatted_chat_history[t] # Shown(PriorHistory(limit \div 2 + 1), 2 * limit)

\* ---- context, tools and concurrency (C21 .. C30) ----

\* C21: a model reply that is one well-formed JSON result object surrounded by
\* prose is parsed to that object, and the turn proceeds with it (to the
\* history update, with the object's answer) instead of failing.
ProseWrapped ==
    [kind |-> "ok", code |-> 200,
     body |-> "Sure! {answer_to_user,updated_aigent_state,updated_user_state} Anything else?"]

C21_ProseWrappedObjectParsed ==
    [][\A t \in Slots :
          ModelResponse(t, ProseWrapped) =>
              /\ pc'[t] = "history"
              /\ status'[t] = "STARTED"
              /\ structured_llm_output'[t] =
                    json_loads("{answer_to_user,updated_aigent_state,updated_user_state}").obj
      ]_vars

\* C22: rendering a template that references any of the placeholders persona,
\* user state, agent state, chat history, current message, current datetime,
\* tool list and tool-use instructions does not fail the turn: the attempt
\* of a complete agent reaches the model call.
C22_EveryPlaceholderSupplied ==
    [][\A t \in Slots :
          (/\ StartAttempt(t)
           /\ get_required_objects_wrapper(user_id[t]).err = ""
           /\ template_str[FirstActive] \subseteq StandardPlaceholders \cup ToolPlaceholders)
              => (pc'[t] = "calling" /\ DOMAIN full_prompt'[t] = template_str[FirstActive])
      ]_vars

\* C23: absent or malformed stored context does not fail a turn. A user state
\* or agent state that is not an object is placed in the prompt as {}; a
\* history that is missing, empty or no list as "No previous conversation
\* history."; a history whose shown entries cannot be formatted as "Error
\* retrieving conversation history."; and the attempt goes on to the model
\* call whenever the template's placeholders are among those supplied, so
\* that no failure of the step is due to the stored context.
Unformattable(h) == \E i \in 1..Len(h) : i > Len(h) - limit /\ "role" \notin DOMAIN h[i]

ExpectedHistoryText(row, h) ==
    IF row # "list" \/ h = <<>> THEN "No previous conversation history."
    ELSE IF Unformattable(h) THEN "Error retrieving conversation history."
    ELSE Shown(h, limit)

ExpectedStateText(state) == IF state.type = "dict" THEN state.text ELSE "{}"

C23_MalformedContextTolerated ==
    [][\A t \in Slots :
          (StartAttempt(t) /\ get_required_objects_wrapper(user_id[t]).err = "") =>
              LET a == FirstActive
                  u == user_id[t]
              IN  /\ formatted_chat_history'[t] = ExpectedHistoryText(chat_row[u][a], history[u][a])
                  /\ template_str[a] \subseteq StandardPlaceholders =>
                        /\ pc'[t] = "calling"
                        /\ status'[t] = "STARTED"
                        /\ full_prompt'[t].user_state = ExpectedStateText(user_state[u])
                        /\ full_prompt'[t].aigent_state = ExpectedStateText(aigent_state[a])
                        /\ full_prompt'[t].chat_history = formatted_chat_history'[t]
                  /\ status'[t] = "FAILURE" =>
                        /\ ~(template_str[a] \subseteq StandardPlaceholders)
                        /\ info'[t] = UnexpectedError("KeyError")
      ]_vars

C23_Witness ==
    \E t \in Slots :
        /\ pc[t] = "calling"
        /\ user_state[user_id[t]] = JsonNull
        /\ aigent_state[aigent[t]] = JsonArray("[]")
        /\ full_prompt[t].user_state = "{}"
        /\ full_prompt[t].aigent_state = "{}"
        /\ full_prompt[t].chat_history = "Error retrieving conversation history."

\* C24: execute_tool hands its caller a string for every tool name and every
\* parameter value and lets no exception through: an unregistered name gives
\* the not-available text without any tool having run, parameters that do
\* not bind give an error text without the tool body having run, and an
\* exception raised inside the tool gives an error text.
ErrorTexts(tool_name) ==
    {InvalidParameters(tool_name, "TypeError"), UnexpectedToolError("ValueError"),
     UnexpectedToolError("RuntimeError")}

C24_ExecuteToolNeverRaises ==
    /\ executor.raised = ""
    /\ executor.pc # "raised"
    /\ executor.pc = "returned" =>
          /\ executor.result # ""
          /\ executor.tool_name \notin {"web_search", "manage_calendar"} =>
                (executor.ran = "no" /\ executor.result = NotAvailable(executor.tool_name))
          /\ executor.ran = "raised" => executor.result \in ErrorTexts(executor.tool_name)
          /\ (executor.ran = "no" /\ executor.tool_name \in {"web_search", "manage_calendar"})
                => executor.result \in ErrorTexts(executor.tool_name)

C24_Witness ==
    /\ executor.pc = "returned"
    /\ executor.tool_name = "manage_calendar"
    /\ executor.ran = "raised"
    /\ executor.result = UnexpectedToolError("ValueError")
    /\ tool_invocations[NoTask] = 2

\* C25: execute_tool returns only after the selected tool has run to
\* completion, for a plain function and for a coroutine function alike: while
\* the tool is running or waiting at an await nothing is returned, and what
\* is returned is never the result of a tool that is still pending.
C25_ReturnsAfterCompletion ==
    /\ executor.pc \in {"returned", "raised"} => executor.ran \in {"no", "completed", "raised"}
    /\ executor.ran = "pending" =>
          (executor.pc \in {"running", "suspended"} /\ executor.result = "")
    /\ (executor.pc = "returned" /\ executor.ran = "no") =>
          executor.result \in ErrorTexts(executor.tool_name) \cup {NotAvailable(executor.tool_name)}

C25_Witness ==
    /\ executor.pc = "returned"
    /\ executor.function = TOOL_REGISTRY.web_search
    /\ executor.awaited
    /\ executor.ran = "completed"
    /\ executor.result = "Paris is the capital of France."

\* C26: at most one tool invocation happens per user turn, whatever the model
\* returns: no turn has called execute_tool more than once.
C26_AtMostOneToolInvocation ==
    \A t \in Slots : tool_invocations[t] <= 1

C26_Witness ==
    \E t \in Slots :
        /\ status[t] = "FAILURE"
        /\ info[t] = ValueError(MissingKeysMessage(json_loads("{tool_to_use,parameters}")))
        /\ total_calls[t] = 1
        /\ tool_invocations[t] = 0

\* C27: whenever the status endpoint reports SUCCESS for a task, the reported
\* result holds the task's answer_to_user; and no response of the endpoint,
\* whatever status it reports, holds anything but answer_to_user: the updated
\* agent state and user state the task returned are never in it.
C27_OnlyAnswerExposed ==
    \A t \in Slots :
        response_data[t].pc = "sent" =>
            /\ response_data[t].status = "SUCCESS" =>
                  /\ DOMAIN response_data[t].result = {"answer_to_user"}
                  /\ response_data[t].result.answer_to_user = answer[t]
            /\ DOMAIN response_data[t].result \subseteq {"answer_to_user"}

C27_Witness ==
    \E t \in Slots :
        /\ response_data[t].pc = "sent"
        /\ response_data[t].status = "SUCCESS"
        /\ response_data[t].result = [answer_to_user |-> "Hi!"]
        /\ info[t].updated_aigent_state_debug = JsonObject("{current_goal: greet}")
        /\ retries[t] = 1

\* C28: an attempt that fails or is retried leaves chat history, agent state
\* and user state unchanged. The stored history changes only in the step in
\* which a turn succeeds, and then by one (user, assistant) pair added to the
\* list that step loaded, however many attempts were retried before; SUCCESS
\* and FAILURE are final, so a turn writes at most once and a failed turn has
\* written nothing.
AttemptFailsOrRetries(t) ==
    /\ status[t] \in {"PENDING", "RETRY", "STARTED"}
    /\ status'[t] \in {"FAILURE", "RETRY"}
    /\ <<status[t], retries[t]>> # <<status'[t], retries'[t]>>

C28_OnlySuccessWrites ==
    [][/\ \A t \in Slots :
             /\ AttemptFailsOrRetries(t) =>
                   (history' = history /\ chat_row' = chat_row
                    /\ aigent_state' = aigent_state /\ user_state' = user_state)
             /\ status[t] \in {"SUCCESS", "FAILURE"} => status'[t] = status[t]
             /\ Succeeds(t) =>
                   LET new == history'[user_id[t]][aigent[t]] IN
                   /\ Len(new) = Len(snapshot[t]) + 2
                   /\ SubSeq(new, 1, Len(new) - 2) = snapshot[t]
                   /\ new[Len(new) - 1].content = message[t]
                   /\ new[Len(new)].content = answer[t]
       /\ history' # history => \E t \in Slots :
             /\ Succeeds(t)
             /\ \A u \in Users, a \in Agents :
                   <<u, a>> # <<user_id[t], aigent[t]>> => history'[u][a] = history[u][a]
      ]_vars

C28_Witness ==
    \E t \in Slots :
        /\ status[t] = "SUCCESS"
        /\ retries[t] = max_retries
        /\ Len(history[user_id[t]][aigent[t]]) = 2
        /\ history[user_id[t]][aigent[t]][1].content = message[t]
        /\ history[user_id[t]][aigent[t]][2].content = answer[t]

\* C29: when turns for the same (user, agent) pair have succeeded, concurrently
\* or not, the stored history holds the pair of each of them: every tick at
\* which a turn saved its pair is the timestamp of a stored entry.
Succeeded == {t \in Slots : status[t] = "SUCCESS"}

C29_NoLostUpdate ==
    \A u \in Users, a \in Agents :
        LET done == {t \in Succeeded : user_id[t] = u /\ aigent[t] = a}
            h == history[u][a]
        IN  \A d \in 0..(Cardinality(done) - 1) :
                \E i \in 1..Len(h) : h[i].timestamp = clock - d

\* C30: the agent an attempt resolves in SETUP is an agent active at that
\* moment; the request of the attempt goes to that agent's endpoint with that
\* agent's persona, the attempt keeps the agent while activations go on, and
\* the pair of a successful attempt is stored in the history of that agent
\* and of no other, whichever agent is active by then. Every attempt, first
\* run or retry, resolves the agent anew.
InAttempt(t) == pc[t] \in {"calling", "history"}

C30_AttemptKeepsItsAgent ==
    [][\A t \in Slots :
          /\ (StartAttempt(t) /\ pc'[t] = "calling") =>
                /\ aigent'[t] \in ActiveSet
                /\ aigent'[t] = get_required_objects_wrapper(user_id[t]).aigent
          /\ (InAttempt(t) /\ InAttempt(t)') => aigent'[t] = aigent[t]
          /\ pc'[t] = "calling" =>
                /\ ollama_api_url_target'[t] = ApiUrl(ollama_endpoints(aigent'[t])[1])
                /\ full_prompt'[t].system_persona_prompt = system_persona_prompt(aigent'[t])
          /\ Succeeds(t) =>
                /\ aigent'[t] = aigent[t]
                /\ history'[user_id[t]][aigent[t]] # history[user_id[t]][aigent[t]]
                /\ \A a \in Agents \ {aigent[t]} :
                      history'[user_id[t]][a] = history[user_id[t]][a]
      ]_vars

C30_Witness ==
    \E t \in Slots :
        /\ status[t] = "SUCCESS"
        /\ retries[t] > 0
        /\ ActiveSet # {}
        /\ aigent[t] \notin ActiveSet
        /\ Len(history[user_id[t]][aigent[t]]) = 2
        /\ \A a \in ActiveSet : history[user_id[t]][a] = <<>>

\* ---- frame, deletion, submission, finality, seeding (C31 .. C36) ----

\* C31: processing a turn never changes the is_active flag of any agent. No
\* step of the task (pick-up and SETUP, the answer of the model call, the
\* history update), whatever its outcome and whatever activations are under
\* way, changes a flag; a step that changes a flag is a statement of an
\* activation.
TaskStep(t) ==
    \/ StartAttempt(t)
    \/ \E r \in Responses : ModelResponse(t, r)
    \/ SaveHistory(t)

C31_TurnLeavesFlags ==
    [][/\ \A t \in Slots : TaskStep(t) => is_active' = is_active
       /\ is_active' # is_active =>
             \E a \in Agents : ActivateBegin(a) \/ ActivateSave(a)
      ]_vars

C31_Witness ==
    \E t \in Slots :
        /\ status[t] = "SUCCESS"
        /\ retries[t] > 0
        /\ InFlight > 0
        /\ ActiveSet = {}

\* C32: after a DELETE of a user's chat history with the active agent has
\* completed, no entry that was stored before the delete is in that history
\* again, also when a turn for the same (user, agent) pair was in flight
\* during the delete: while the DELETE is the user's last request to the
\* history endpoint, every stored entry of that history is younger than it.
C32_DeletedEntriesStayDeleted ==
    \A u \in DOMAIN history_response :
        LET last == history_response[u] IN
        (last.method = "DELETE" /\ last.status_code = 204) =>
            \A i \in 1..Len(history[u][last.aigent]) :
                history[u][last.aigent][i].timestamp > last.clock

\* (the other two parts of C32) a DELETE leaves every other history as it
\* was and its own row absent; a GET that follows the DELETE before any turn
\* has saved returns an empty history
C32_DeleteClearsOnlyItsRow ==
    [][\A u \in DOMAIN history_response :
          /\ (DeleteHistory(u) /\ ActiveAigent.raised = "") =>
                /\ history'[u][FirstActive] = <<>>
                /\ chat_row'[u][FirstActive] = "DoesNotExist"
                /\ \A v \in DOMAIN history, a \in Agents :
                      <<v, a>> # <<u, FirstActive>> =>
                          (history'[v][a] = history[v][a] /\ chat_row'[v][a] = chat_row[v][a])
          /\ (/\ GetHistory(u)
              /\ history_response[u].method = "DELETE"
              /\ history_response[u].status_code = 204
              /\ history_response[u].clock = clock) =>
                history_response'[u].history = <<>>
      ]_vars

\* C33: the send-message endpoint enqueues a task only when exactly one agent
\* is active at submission time. With one active agent it answers 202 with
\* the id of the task it has put on the queue; with no active agent it
\* answers 503 and with several it answers 500, and then no task is created
\* and nothing else changes.
C33_OnlyOneActiveEnqueues ==
    [][/\ \A u \in Users, m \in Messages :
             post(u, m) =>
                 /\ send_response'[u].status_code =
                        (IF ActiveSet = {} THEN 503
                         ELSE IF Cardinality(ActiveSet) = 1 THEN 202 ELSE 500)
                 /\ send_response'[u].status_code = 202 =>
                        /\ status[send_response'[u].task_id] = "NONE"
                        /\ status'[send_response'[u].task_id] = "PENDING"
                 /\ send_response'[u].status_code # 202 =>
                        /\ send_response'[u].task_id = NoTask
                        /\ UNCHANGED <<status, user_id, message, pc, historyVars>>
       /\ \A t \in Slots :
             (status[t] = "NONE" /\ status'[t] # "NONE") => Cardinality(ActiveSet) = 1
      ]_vars

C33_Witness ==
    /\ Cardinality(ActiveSet) > 1
    /\ send_response[TEST_USER_ID] = [status_code |-> 500, task_id |-> NoTask]
    /\ \A t \in Slots : status[t] = "NONE"

\* C34: SUCCESS and FAILURE are absorbing. Once a task is in SUCCESS or
\* FAILURE its status and its result or error never change again, it makes
\* no further model call, and the chat history is not written by it any
\* more; a status the status endpoint has read as SUCCESS or FAILURE is
\* still the status of the task whenever it is looked at again.
C34_TerminalAbsorbing ==
    [][\A t \in Slots :
          /\ status[t] \in {"SUCCESS", "FAILURE"} =>
                /\ status'[t] = status[t]
                /\ info'[t] = info[t]
                /\ pc[t] = "done" /\ pc'[t] = "done"
                /\ calls'[t] = calls[t]
                /\ total_calls'[t] = total_calls[t]
                /\ retries'[t] = retries[t]
                /\ history' # history => \E s \in Slots \ {t} : Succeeds(s)
          /\ response_data'[t].status \in {"SUCCESS", "FAILURE"} =>
                status'[t] = response_data'[t].status
      ]_vars

C34_Witness ==
    \E t \in Slots :
        /\ response_data[t].pc = "sent"
        /\ response_data[t].status = "FAILURE"
        /\ response_data[t].error_message = HttpError(503).msg
        /\ status[t] = "FAILURE"
        /\ retries[t] = max_retries
        /\ total_calls[t] = max_retries + 1

\* C35: an attempt whose active agent has an endpoint value that is empty, not
\* a list, or a list with an empty first entry ends the task in FAILURE
\* without a model call and without a retry being scheduled; a 200 reply of
\* the model whose `response` field is missing or empty ends the task in
\* FAILURE after that one call, without a retry being scheduled.
BadEndpoints(value) ==
    \/ value.type # "list"
    \/ Len(value.items) = 0
    \/ value.items[1] = ""

NoRetryScheduled(t) ==
    /\ status'[t] = "FAILURE"
    /\ pc'[t] = "done"
    /\ retries'[t] = retries[t]
    /\ countdowns'[t] = countdowns[t]
    /\ total_calls'[t] = total_calls[t]

C35_BadConfigurationFailsTerminally ==
    [][\A t \in Slots :
          /\ (/\ StartAttempt(t)
              /\ user_id[t] \in Users
              /\ ActiveSet # {}
              /\ BadEndpoints(endpoints[FirstActive])) =>
                /\ NoRetryScheduled(t)
                /\ calls'[t] = 0
                /\ get_required_objects_wrapper(user_id[t]).err = "" =>
                      info'[t] = ValueError("Aigent has no valid Ollama endpoints configured.")
          /\ (ModelResponse(t, EmptyField) \/ ModelResponse(t, MissingField)) =>
                /\ NoRetryScheduled(t)
                /\ calls[t] = 1
                /\ info'[t] = ValueError("Ollama response missing 'response' field.")
      ]_vars

C35_Witness ==
    \E t \in Slots :
        /\ status[t] = "FAILURE"
        /\ endpoints[FirstActive] = EndpointList(<<"", "http://ollama-1:11434/">>)
        /\ info[t] = ValueError("Aigent has no valid Ollama endpoints configured.")
        /\ total_calls[t] = 0
        /\ retries[t] = 0

\* C36: seeding agents from a fixture keeps at most one agent active, for
\* every fixture, every prior database state and both modes: no pass of the
\* loop leaves more active agents than there were, or more than one if there
\* was at most one. Without overwrite, an agent flagged active that has no
\* row yet is created inactive when another agent is active, and the active
\* agents stay as they were; with overwrite, writing a flagged agent leaves
\* that agent as the only active one.
Max(a, b) == IF a >= b THEN a ELSE b

====
